---- MODULE Spec2Model ----
(***************************************************************************)
(* Model of the reconciliation engine of vite-plugin-localcaddy            *)
(* (src/src/mod.ts): bootstrap of the proxy's configuration tree, route    *)
(* lookup, liveness probe and the create / replace / conflict decision.    *)
(*                                                                         *)
(* The remote configuration tree is the variable cfg.  Every await of the  *)
(* code (every admin request, every probe callback) is one action.         *)
(* The admin API answers a request the way the plugin relies on it:        *)
(*   GET  path            2xx iff the path is present in the tree          *)
(*   PUT  object path     creates / sets the value at the path             *)
(*   PUT  array/index     inserts the body at that index ("Insert the      *)
(*                        route at index 0 (before others)", mod.ts:70-74) *)
(*   POST array           appends the body                                 *)
(*   POST /load           replaces the whole tree                          *)
(***************************************************************************)
EXTENDS Integers, Sequences, FiniteSets, TLC

(***************************************************************************)
(* Bounds                                                                  *)
(***************************************************************************)
MaxRuns == 2

\* Longest path given to slugFromFolder.
MaxNameLen == 5

\* Longest route list given to findRouteByHost.
MaxRouteList == 3

\* Longest listen list given to pickHttpsPort.
MaxListenLen == 3

\* Largest port of the range given to route construction.
MaxPortArg == 100

\* Longest handler list of a route given to extractUpstreamPort.
MaxHandlers == 2

(***************************************************************************)
(* Strings that the code takes apart are sequences of characters.          *)
(***************************************************************************)
DigitChars == <<"0", "1", "2", "3", "4", "5", "6", "7", "8", "9">>

IsDigit(c) == \E i \in 1..10 : DigitChars[i] = c

DigitVal(c) == (CHOOSE i \in 1..10 : DigitChars[i] = c) - 1

RECURSIVE NumToStr(_)
NumToStr(n) ==
    IF n < 10 THEN <<DigitChars[n + 1]>>
    ELSE Append(NumToStr(n \div 10), DigitChars[(n % 10) + 1])

RECURSIVE StrToNum(_)
StrToNum(s) ==
    IF Len(s) = 0 THEN 0
    ELSE 10 * StrToNum(SubSeq(s, 1, Len(s) - 1)) + DigitVal(s[Len(s)])

RECURSIVE Trim(_)
Trim(s) ==
    IF Len(s) = 0 THEN s
    ELSE IF s[1] = " " THEN Trim(Tail(s))
    ELSE IF s[Len(s)] = " " THEN Trim(SubSeq(s, 1, Len(s) - 1))
    ELSE s

Loopback == <<"1", "2", "7", ".", "0", ".", "0", ".", "1">>

\* Variant of DialOf: the ':' between host and port is left out.
DialOfNoColon(port) == Loopback \o NumToStr(port)

\* `127.0.0.1:${port}`
DialOf(port) == Loopback \o <<":">> \o NumToStr(port)

NoPort == -1

\* Length of the run of digits that ends the string.
RECURSIVE DigitSuffixLen(_)
DigitSuffixLen(s) ==
    IF Len(s) = 0 \/ ~IsDigit(s[Len(s)]) THEN 0
    ELSE 1 + DigitSuffixLen(SubSeq(s, 1, Len(s) - 1))

\* /:(\d+)$/.exec(s) followed by Number(m[1]); NoPort when there is no match.
TrailingPort(s) ==
    LET k == DigitSuffixLen(s)
    IN IF k >= 1 /\ Len(s) > k /\ s[Len(s) - k] = ":"
       THEN StrToNum(SubSeq(s, Len(s) - k + 1, Len(s)))
       ELSE NoPort

(***************************************************************************)
(* Routes                                                                  *)
(***************************************************************************)
\* Variant of MkRoute: the terminal flag is left out.
MkRouteNoTerminal(domain, port) ==
    [match    |-> << [host |-> <<domain>>] >>,
     handle   |-> << [handler |-> "reverse_proxy",
                      upstreams |-> << [dial |-> DialOf(port)] >>] >>,
     terminal |-> FALSE]

\* The route object that addRoute and replaceRouteAt build.
MkRoute(domain, port) ==
    [match    |-> << [host |-> <<domain>>] >>,
     handle   |-> << [handler |-> "reverse_proxy",
                      upstreams |-> << [dial |-> DialOf(port)] >>] >>,
     terminal |-> TRUE]

NullRoute == [match |-> <<>>, handle |-> <<>>, terminal |-> FALSE]

SeqIncludes(s, x) == \E i \in 1..Len(s) : s[i] = x

RouteMatchesHost(r, host) ==
    \E j \in 1..Len(r.match) : SeqIncludes(r.match[j].host, host)

\* Variant of ScanRoutes: only the first match condition of a route is tested.
RECURSIVE ScanRoutesFirstMatcher(_, _, _)
ScanRoutesFirstMatcher(routes, host, i) ==
    IF i >= Len(routes) THEN [route |-> NullRoute, index |-> -1]
    ELSE IF Len(routes[i + 1].match) > 0
            /\ SeqIncludes(routes[i + 1].match[1].host, host)
         THEN [route |-> routes[i + 1], index |-> i]
    ELSE ScanRoutesFirstMatcher(routes, host, i + 1)

\* for (let i = 0; i < routes.length; i++) ... return { route: r, index: i }
\* (i is 0-based, as in the code; NullRoute stands for undefined)
RECURSIVE ScanRoutes(_, _, _)
ScanRoutes(routes, host, i) ==
    IF i >= Len(routes) THEN [route |-> NullRoute, index |-> -1]
    ELSE IF RouteMatchesHost(routes[i + 1], host)
         THEN [route |-> routes[i + 1], index |-> i]
    ELSE ScanRoutes(routes, host, i + 1)

\* findRouteByHost(routes, host) with routes possibly undefined.
findRoute(routes, host) ==
    IF ~routes.has THEN [route |-> NullRoute, index |-> -1]
    ELSE ScanRoutes(routes.v, host, 0)

\* Index (0-based, as in the code) of the first route matching host, or -1.
findRouteByHost(routes, host) == ScanRoutes(routes, host, 0).index

\* Port of one handler, NoPort when the handler yields none.
HandlerPort(h) ==
    IF h.handler = "reverse_proxy" /\ Len(h.upstreams) > 0
       /\ Len(h.upstreams[1].dial) > 0
    THEN TrailingPort(Trim(h.upstreams[1].dial))
    ELSE NoPort

\* Variant of ScanHandlers: the scan ends at the first reverse_proxy handler
\* that has an upstream, whether or not its dial address yields a port.
RECURSIVE ScanHandlersFirstProxy(_, _)
ScanHandlersFirstProxy(handlers, i) ==
    IF i > Len(handlers) THEN NoPort
    ELSE IF handlers[i].handler = "reverse_proxy" /\ Len(handlers[i].upstreams) > 0
         THEN HandlerPort(handlers[i])
    ELSE ScanHandlersFirstProxy(handlers, i + 1)

\* for (const h of handlers) { ... if (m) return Number(m[1]); } return undefined
RECURSIVE ScanHandlers(_, _)
ScanHandlers(handlers, i) ==
    IF i > Len(handlers) THEN NoPort
    ELSE IF HandlerPort(handlers[i]) # NoPort THEN HandlerPort(handlers[i])
    ELSE ScanHandlers(handlers, i + 1)

extractUpstreamPort(route) == ScanHandlers(route.handle, 1)

(***************************************************************************)
(* The remote configuration tree.  A container is present or absent; an    *)
(* optional value is [has, v] with v empty when absent.                    *)
(*   /config/                            root                              *)
(*   /config/apps                        apps                              *)
(*   /config/apps/http                   http                              *)
(*   /config/apps/http/servers           servers                           *)
(*   /config/apps/http/servers/<id>      server, listen, routes, auto      *)
(*   /config/apps/tls                    tls                               *)
(*   /config/apps/tls/automation         automation                        *)
(*   /config/apps/tls/automation/policies  policies                        *)
(***************************************************************************)
Absent == [has |-> FALSE, v |-> <<>>]

Some(x) == [has |-> TRUE, v |-> x]

NoAuto == [has |-> FALSE, disable |-> "unset", skip |-> <<>>]

EmptyTree ==
    [root |-> FALSE, apps |-> FALSE, http |-> FALSE, servers |-> FALSE,
     server |-> FALSE, listen |-> Absent, routes |-> Absent, auto |-> NoAuto,
     tls |-> FALSE, automation |-> FALSE, policies |-> Absent]

\* { subjects: [domain], issuers: [{ module: "internal" }] }
InternalPolicy(domain) == [subjects |-> <<domain>>, issuers |-> <<"internal">>]

\* ":443", ":80", ...
Addr(port) == <<":">> \o NumToStr(port)

\* GET path answers 2xx.
Present(c, path) ==
    CASE path = "config"     -> c.root
      [] path = "apps"       -> c.apps
      [] path = "http"       -> c.http
      [] path = "servers"    -> c.servers
      [] path = "server"     -> c.server
      [] path = "listen"     -> c.listen.has
      [] path = "routes"     -> c.routes.has
      [] path = "auto"       -> c.auto.has
      [] path = "tls"        -> c.tls
      [] path = "automation" -> c.automation
      [] path = "policies"   -> c.policies.has

\* The object that holds the key a write to path sets.
Parent(path) ==
    CASE path = "apps"       -> "config"
      [] path = "http"       -> "apps"
      [] path = "servers"    -> "http"
      [] path = "server"     -> "servers"
      [] path = "listen"     -> "server"
      [] path = "routes"     -> "server"
      [] path = "auto"       -> "server"
      [] path = "tls"        -> "apps"
      [] path = "automation" -> "tls"
      [] path = "policies"   -> "automation"

\* Variant of SeedTree: the seed body has no TLS policy.
SeedTreeNoPolicy(listen, domain) ==
    [root |-> TRUE, apps |-> TRUE, http |-> TRUE, servers |-> TRUE,
     server |-> TRUE, listen |-> Some(listen), routes |-> Some(<<>>),
     auto |-> NoAuto,
     tls |-> TRUE, automation |-> TRUE,
     policies |-> Some(<<>>)]

\* POST /load: the body becomes the whole tree.
SeedTree(listen, domain) ==
    [root |-> TRUE, apps |-> TRUE, http |-> TRUE, servers |-> TRUE,
     server |-> TRUE, listen |-> Some(listen), routes |-> Some(<<>>),
     auto |-> NoAuto,
     tls |-> TRUE, automation |-> TRUE,
     policies |-> Some(<<InternalPolicy(domain)>>)]

NoHttp(c) ==
    [c EXCEPT !.http = FALSE, !.servers = FALSE, !.server = FALSE,
              !.listen = Absent, !.routes = Absent, !.auto = NoAuto]

NoTls(c) ==
    [c EXCEPT !.tls = FALSE, !.automation = FALSE, !.policies = Absent]

\* PUT of a container placeholder: the body becomes the value at the path.
PutContainer(c, path) ==
    CASE path = "apps"       -> [NoTls(NoHttp(c)) EXCEPT !.apps = TRUE]
      [] path = "http"       -> [NoHttp(c) EXCEPT !.http = TRUE, !.servers = TRUE]
      [] path = "servers"    -> [NoHttp(c) EXCEPT !.http = TRUE, !.servers = TRUE]
      [] path = "tls"        -> [c EXCEPT !.tls = TRUE, !.automation = TRUE,
                                          !.policies = Some(<<>>)]
      [] path = "automation" -> [c EXCEPT !.automation = TRUE,
                                          !.policies = Some(<<>>)]
      [] path = "policies"   -> [c EXCEPT !.policies = Some(<<>>)]

\* Variant of PutServer: the body has no routes key.
PutServerNoRoutes(c, listen) ==
    [c EXCEPT !.server = TRUE, !.listen = Some(listen),
              !.routes = Absent, !.auto = NoAuto]

\* PUT serverBase { listen: opt.listen, routes: [] }
PutServer(c, listen) ==
    [c EXCEPT !.server = TRUE, !.listen = Some(listen),
              !.routes = Some(<<>>), !.auto = NoAuto]

PutListen(c, next) == [c EXCEPT !.listen = Some(next)]

\* Variant of PutAuto: only the disable flag is written, the other fields of
\* the setting are dropped.
PutAutoFlagOnly(c, auto) ==
    [c EXCEPT !.auto = [has |-> TRUE, disable |-> auto.disable, skip |-> <<>>]]

\* PUT .../automatic_https { ...auto, disable: false }
PutAuto(c, auto) == [c EXCEPT !.auto = auto]

\* Variant of PostPolicy: the list is overwritten with the one entry.
PostPolicyOverwrite(c, pol) == [c EXCEPT !.policies = Some(<<pol>>)]

\* POST .../policies appends.
PostPolicy(c, pol) == [c EXCEPT !.policies = Some(Append(c.policies.v, pol))]

InsertAt(s, i, x) == SubSeq(s, 1, i) \o <<x>> \o SubSeq(s, i + 1, Len(s))

\* PUT .../routes/<i>: the body is inserted at index i (0-based).
PutRouteAt(c, i, route) == [c EXCEPT !.routes = Some(InsertAt(c.routes.v, i, route))]

\* POST .../routes appends.
PostRoute(c, route) == [c EXCEPT !.routes = Some(Append(c.routes.v, route))]

\* A write answers 2xx when the object that is to hold the key exists
\* (and, for an array element, when the index is within the array).
WriteOk(c, path) == Present(c, Parent(path))

RouteWriteOk(c, i) == c.server /\ i <= Len(c.routes.v)

(***************************************************************************)
(* Bootstrap helpers                                                       *)
(***************************************************************************)
arraysEqual(a, b) ==
    /\ Len(a) = Len(b)
    /\ \A i \in 1..Len(a) : a[i] = b[i]

\* Array.from(new Set(s)): first occurrences, in order.
RECURSIVE Dedupe(_)
Dedupe(s) ==
    IF Len(s) = 0 THEN <<>>
    ELSE LET front == Dedupe(SubSeq(s, 1, Len(s) - 1))
         IN IF SeqIncludes(front, s[Len(s)]) THEN front
            ELSE Append(front, s[Len(s)])

\* Variant of ListenUnion: the desired list replaces the current one.
ListenReplace(current, want) == want

\* Variant of ListenUnion: the two lists are concatenated without the Set.
ListenConcat(current, want) == current \o want

\* Array.from(new Set([...(current ?? []), ...want]))
ListenUnion(current, want) == Dedupe(current \o want)

\* Variant of PolicyCovers: any policy naming the domain counts, whatever
\* its issuers.
PolicyCoversAnyIssuer(pol, domain) == SeqIncludes(pol.subjects, domain)

\* Variant of PolicyCovers: any policy with an internal issuer counts,
\* whatever its subjects.
PolicyCoversAnySubject(pol, domain) == SeqIncludes(pol.issuers, "internal")

\* The predicate of policies.findIndex in ensureTlsPolicy.
PolicyCovers(pol, domain) ==
    /\ SeqIncludes(pol.subjects, domain)
    /\ SeqIncludes(pol.issuers, "internal")

\* policies.findIndex(...), 0-based, -1 when there is none.
PolicyIndex(policies, domain) ==
    LET hits == {i \in 1..Len(policies) : PolicyCovers(policies[i], domain)}
    IN IF hits = {} THEN -1
       ELSE (CHOOSE i \in hits : \A k \in hits : i <= k) - 1

(***************************************************************************)
(* Inputs                                                                  *)
(***************************************************************************)
Inst == {1, 2}

D1 == "app.localhost"

D2 == "api.localhost"

Domains == {D1, D2}

OtherHost == "other.localhost"

\* Ports a local dev server binds to; 0 stands for an address without a
\* usable port (!vitePort).
LocalPorts == {5173, 5174}

\* user.listen ?? [":443", ":80"]
DefaultListen == <<Addr(443), Addr(80)>>

ListenOptions == {DefaultListen}

(***************************************************************************)
(* State                                                                   *)
(*   cfg    the proxy's configuration tree                                 *)
(*   inst   per plugin process: its options, its position in wireDomain,   *)
(*          what it has read, the requests it has issued and its effects   *)
(*   runs   number of reconciliation runs started                          *)
(*   prev   summary of the run that completed before the current one       *)
(***************************************************************************)
VARIABLES cfg, inst, runs, prev, call

vars == <<cfg, inst, runs, prev, call>>

\* One call of an exported helper function: its name, its argument and,
\* once it has returned, its result.  NoCall while no helper is under test.
NoCall == [fn |-> "none", arg |-> <<>>, out |-> <<>>, done |-> FALSE]

NoProbe == [resolved |-> FALSE, result |-> FALSE, timer |-> "none",
            conn |-> "none", aborted |-> FALSE, resolves |-> 0]

Req(m, path) == [m |-> m, path |-> path, idx |-> -1, route |-> NullRoute]

RouteReq(m, i, route) == [m |-> m, path |-> "routes", idx |-> i, route |-> route]

ProbeReq(port) == [m |-> "PROBE", path |-> "tcp", idx |-> port, route |-> NullRoute]

\* What the admin API answers: status line and body text.
NoResp == [status |-> 0, statusText |-> "", body |-> ""]

OkResp == [status |-> 200, statusText |-> "OK", body |-> ""]

\* The answer to a request whose path does not lead to a value.
NotTraversable ==
    [status |-> 400, statusText |-> "Bad Request", body |-> "invalid traversal path"]

Refusals ==
    { NotTraversable,
      [status |-> 500, statusText |-> "Internal Server Error", body |-> "loading config"] }

\* The Error objects of the code, by the parts of their message.
NoError == [kind |-> "none", status |-> 0, statusText |-> "", path |-> "", idx |-> -1,
            body |-> ""]

\* new Error("Unable to determine Vite dev server port")
NoPortError == [NoError EXCEPT !.kind = "noport"]

\* Variant of HttpError: the response body is left out of the message.
HttpErrorNoBody(r, resp) ==
    [kind |-> "http", status |-> resp.status, statusText |-> resp.statusText,
     path |-> r.path, idx |-> r.idx, body |-> ""]

\* new Error(`HTTP ${r.status} ${r.statusText} for ${url}\n${txt}`); the url
\* is the path of the request, with the index for an array element.
HttpError(r, resp) ==
    [kind |-> "http", status |-> resp.status, statusText |-> resp.statusText,
     path |-> r.path, idx |-> r.idx, body |-> resp.body]

\* A plugin process that has not started a run.
Blank(pc) ==
    [pc |-> pc, domain |-> D1, port |-> 0, listen |-> DefaultListen,
     insertFirst |-> TRUE, failOnActiveDomain |-> TRUE,
     cfg0 |-> EmptyTree, next |-> <<>>, auto |-> NoAuto,
     looked |-> FALSE, seen |-> <<>>, idx |-> -1, existingPort |-> NoPort,
     probe |-> NoProbe, log |-> <<>>, status |-> "none",
     outcome |-> "none", printed |-> 0, errLogged |-> FALSE, warned |-> FALSE,
     closed |-> FALSE, exited |-> FALSE,
     resp |-> NoResp, thrown |-> NoError, logged |-> NoError]

NoPrev == [valid |-> FALSE, domain |-> D1, port |-> 0, outcome |-> "none",
           clean |-> FALSE]

Sent(l, r) == [l EXCEPT !.log = Append(@, r)]

Goto(l, pc) == [l EXCEPT !.pc = pc]

\* r.ok of the answer to the request just sent.
Answered(l, ok) ==
    [l EXCEPT !.status = IF ok THEN "2xx" ELSE "non2xx",
              !.resp = IF ok THEN OkResp ELSE NotTraversable]

\* The admin API answers the request just sent with resp.
AnsweredWith(l, resp) == [l EXCEPT !.status = "non2xx", !.resp = resp]

\* The error that ends the run: the one req() builds from the request just
\* sent and its answer, or, before any request, the one wireDomain throws.
ErrorOf(l) ==
    IF Len(l.log) = 0 THEN NoPortError ELSE HttpError(l.log[Len(l.log)], l.resp)

\* Variant of Threw: the error is swallowed and the run goes on to the lookup.
ThrewSwallowed(l) == [l EXCEPT !.pc = "getRoutes"]

\* req(): a non-2xx answer throws; wireDomain rejects with that error and
\* configureServer's catch logs "setup failed:" and its message.
Threw(l) ==
    [l EXCEPT !.pc = "done", !.outcome = "threw", !.errLogged = TRUE,
              !.thrown = ErrorOf(l), !.logged = ErrorOf(l)]

(***************************************************************************)
(* ensureCaddyServerExists and ensureTlsPolicy, one request per step.      *)
(* BootStep(c, l) is the tree and the process state after the request at   *)
(* l.pc has been answered.                                                 *)
(***************************************************************************)
\* Variant of EnsureGet: a non-2xx answer to the GET raises.
EnsureGetThrows(c, l, path, present, absent) ==
    [c |-> c,
     l |-> IF Present(c, path)
           THEN Goto(Answered(Sent(l, Req("GET", path)), TRUE), present)
           ELSE Threw(Answered(Sent(l, Req("GET", path)), FALSE))]

\* Variant of EnsureGet: below the root, the write follows whatever the GET
\* answered.
EnsureGetAlwaysPuts(c, l, path, present, absent) ==
    [c |-> c,
     l |-> Goto([l EXCEPT !.log = Append(@, [m |-> "GET", path |-> path, idx |-> -1,
                                              route |-> [match |-> <<>>, handle |-> <<>>,
                                                         terminal |-> FALSE]]),
                          !.status = IF Present(c, path) THEN "2xx" ELSE "non2xx"],
                IF path \in {"config", "server"} /\ Present(c, path)
                THEN present ELSE absent)]

\* ensurePath(p, payload), the GET: where to go when present / when absent.
EnsureGet(c, l, path, present, absent) ==
    [c |-> c,
     l |-> Goto(Answered(Sent(l, Req("GET", path)), Present(c, path)),
                IF Present(c, path) THEN present ELSE absent)]

\* A PUT/POST through req(): tree c2 on 2xx, a throw otherwise.
Write(c, l, m, path, c2, nextpc) ==
    IF WriteOk(c, path)
    THEN [c |-> c2, l |-> Goto(Answered(Sent(l, Req(m, path)), TRUE), nextpc)]
    ELSE [c |-> c, l |-> Threw(Answered(Sent(l, Req(m, path)), FALSE))]

BootPcs ==
    {"getRoot", "postLoad", "getServer", "getApps", "putApps", "getHttp",
     "putHttp", "getServers", "putServers", "putServer", "getListen",
     "putListen", "getAuto", "putAuto", "tlsGetApps", "tlsPutApps", "getTls",
     "putTls", "getAutomation", "putAutomation", "getPolPath", "putPolPath",
     "getPolicies", "postPolicy"}

BootStep(c, l) ==
    CASE l.pc = "getRoot" ->
           EnsureGet(c, l, "config", "getServer", "postLoad")
      [] l.pc = "postLoad" ->
           [c |-> SeedTree(l.listen, l.domain),
            l |-> Goto(Answered(Sent(l, Req("POST", "load")), TRUE), "getRoutes")]
      [] l.pc = "getServer" ->
           EnsureGet(c, l, "server", "getListen", "getApps")
      [] l.pc = "getApps" ->
           EnsureGet(c, l, "apps", "getHttp", "putApps")
      [] l.pc = "putApps" ->
           Write(c, l, "PUT", "apps", PutContainer(c, "apps"), "getHttp")
      [] l.pc = "getHttp" ->
           EnsureGet(c, l, "http", "getServers", "putHttp")
      [] l.pc = "putHttp" ->
           Write(c, l, "PUT", "http", PutContainer(c, "http"), "getServers")
      [] l.pc = "getServers" ->
           EnsureGet(c, l, "servers", "putServer", "putServers")
      [] l.pc = "putServers" ->
           Write(c, l, "PUT", "servers", PutContainer(c, "servers"), "putServer")
      [] l.pc = "putServer" ->
           Write(c, l, "PUT", "server", PutServer(c, l.listen), "tlsGetApps")
      [] l.pc = "getListen" ->
           LET current == c.listen.v
               nxt     == ListenUnion(current, l.listen)
           IN [c |-> c,
               l |-> Goto(Answered(Sent([l EXCEPT !.next = nxt], Req("GET", "listen")),
                                   c.listen.has),
                          IF arraysEqual(current, nxt) THEN "getAuto" ELSE "putListen")]
      [] l.pc = "putListen" ->
           Write(c, l, "PUT", "listen", PutListen(c, l.next), "getAuto")
      [] l.pc = "getAuto" ->
           [c |-> c,
            l |-> Goto(Answered(Sent([l EXCEPT !.auto = c.auto], Req("GET", "auto")),
                                c.auto.has),
                       IF c.auto.has /\ c.auto.disable = "true"
                       THEN "putAuto" ELSE "tlsGetApps")]
      [] l.pc = "putAuto" ->
           Write(c, l, "PUT", "auto",
                 PutAuto(c, [l.auto EXCEPT !.disable = "false"]), "tlsGetApps")
      [] l.pc = "tlsGetApps" ->
           EnsureGet(c, l, "apps", "getTls", "tlsPutApps")
      [] l.pc = "tlsPutApps" ->
           Write(c, l, "PUT", "apps", PutContainer(c, "apps"), "getTls")
      [] l.pc = "getTls" ->
           EnsureGet(c, l, "tls", "getAutomation", "putTls")
      [] l.pc = "putTls" ->
           Write(c, l, "PUT", "tls", PutContainer(c, "tls"), "getPolicies")
      [] l.pc = "getAutomation" ->
           EnsureGet(c, l, "automation", "getPolPath", "putAutomation")
      [] l.pc = "putAutomation" ->
           Write(c, l, "PUT", "automation", PutContainer(c, "automation"), "getPolPath")
      [] l.pc = "getPolPath" ->
           EnsureGet(c, l, "policies", "getPolicies", "putPolPath")
      [] l.pc = "putPolPath" ->
           Write(c, l, "PUT", "policies", PutContainer(c, "policies"), "getPolicies")
      [] l.pc = "getPolicies" ->
           [c |-> c,
            l |-> Goto(Answered(Sent(l, Req("GET", "policies")), c.policies.has),
                       IF PolicyIndex(c.policies.v, l.domain) = -1
                       THEN "postPolicy" ELSE "getRoutes")]
      [] l.pc = "postPolicy" ->
           Write(c, l, "POST", "policies",
                 PostPolicy(c, InternalPolicy(l.domain)), "getRoutes")

\* The whole bootstrap, run to its end against tree c without interruption.
RECURSIVE BootRun(_, _)
BootRun(c, l) ==
    IF l.pc \in BootPcs
    THEN LET r == BootStep(c, l) IN BootRun(r.c, r.l)
    ELSE [c |-> c, l |-> l]

\* The tree that ensureCaddyServerExists(domain) leaves when started on c.
ensureCaddyServerExists(c, listen, domain) ==
    BootRun(c, [Blank("getRoot") EXCEPT !.listen = listen, !.domain = domain]).c

(***************************************************************************)
(* Starting configurations                                                 *)
(***************************************************************************)
Proxy(hosts, port) ==
    [match    |-> << [host |-> hosts] >>,
     handle   |-> << [handler |-> "reverse_proxy",
                      upstreams |-> << [dial |-> DialOf(port)] >>] >>,
     terminal |-> TRUE]

\* A route for the host that proxies nowhere.
Static(hosts) ==
    [match    |-> << [host |-> hosts] >>,
     handle   |-> << [handler |-> "static_response", upstreams |-> <<>>] >>,
     terminal |-> FALSE]

\* A reverse_proxy route with an empty upstream list.
ProxyNoUpstream(hosts) ==
    [match    |-> << [host |-> hosts] >>,
     handle   |-> << [handler |-> "reverse_proxy", upstreams |-> <<>>] >>,
     terminal |-> TRUE]

\* A reverse_proxy route with the given dial text.
ProxyDial(hosts, dial) ==
    [match    |-> << [host |-> hosts] >>,
     handle   |-> << [handler |-> "reverse_proxy",
                      upstreams |-> << [dial |-> dial] >>] >>,
     terminal |-> TRUE]

WithTls(c, level, policies) ==
    [c EXCEPT !.tls = level >= 1, !.automation = level >= 2,
              !.policies = IF level >= 3 THEN Some(policies) ELSE Absent]

Containers(level) ==
    [EmptyTree EXCEPT !.root = level >= 1, !.apps = level >= 2,
                      !.http = level >= 3, !.servers = level >= 4]

ServerTree(listen, routes, auto) ==
    [Containers(4) EXCEPT !.server = TRUE, !.listen = listen,
                          !.routes = routes, !.auto = auto]

AutoOff == [has |-> TRUE, disable |-> "true", skip |-> <<OtherHost>>]

AutoOn == [has |-> TRUE, disable |-> "false", skip |-> <<>>]

\* automatic_https without a disable key.
AutoSkipOnly == [has |-> TRUE, disable |-> "unset", skip |-> <<OtherHost>>]

InitTrees ==
    { Containers(0),
      Containers(1),
      Containers(2),
      WithTls(Containers(3), 1, <<>>),
      WithTls(Containers(4), 2, <<>>),
      WithTls(ServerTree(Some(DefaultListen), Some(<<>>), NoAuto), 3, <<>>),
      WithTls(ServerTree(Some(<<Addr(8443)>>), Some(<<Proxy(<<OtherHost>>, 9000)>>), AutoOff),
              3, <<InternalPolicy(OtherHost)>>),
      WithTls(ServerTree(Some(<<Addr(80), Addr(443)>>),
                         Some(<<Proxy(<<OtherHost>>, 9000), Proxy(<<D1>>, 5174)>>), AutoOn),
              3, <<InternalPolicy(D1)>>),
      WithTls(ServerTree(Absent, Absent, NoAuto), 0, <<>>),
      WithTls(ServerTree(Some(<<Addr(443), Addr(443)>>), Some(<<Static(<<D1>>)>>), NoAuto),
              3, <<[subjects |-> <<D1>>, issuers |-> <<"acme">>], InternalPolicy(OtherHost)>>),
      WithTls(ServerTree(Some(DefaultListen),
                         Some(<<Proxy(<<D2, OtherHost>>, 5173), Proxy(<<OtherHost>>, 9000)>>),
                         NoAuto),
              3, <<InternalPolicy(D2), InternalPolicy(OtherHost)>>),
      WithTls(ServerTree(Some(DefaultListen),
                         Some(<<Proxy(<<OtherHost>>, 9000), ProxyNoUpstream(<<D1>>)>>),
                         NoAuto),
              3, <<InternalPolicy(D1)>>),
      WithTls(ServerTree(Some(DefaultListen),
                         Some(<<ProxyDial(<<D2>>, <<"b", "a", "c", "k", "e", "n", "d">>)>>),
                         NoAuto),
              3, <<InternalPolicy(D2)>>) }

Init ==
    /\ cfg \in InitTrees
    /\ inst = [p \in Inst |-> IF p = 1 THEN Blank("idle") ELSE Blank("off")]
    /\ runs = 0
    /\ prev = NoPrev
    /\ call = NoCall

(***************************************************************************)
(* wireDomain                                                              *)
(***************************************************************************)
HasDomainRoute(c) == \E d \in Domains : findRouteByHost(c.routes.v, d) # -1

Summary(l) ==
    [valid |-> TRUE, domain |-> l.domain, port |-> l.port, outcome |-> l.outcome,
     clean |-> ~HasDomainRoute(l.cfg0)]

\* No other plugin process is in the middle of a run.
Quiet(p) == \A q \in Inst \ {p} : inst[q].pc \in {"off", "idle", "done"}

Begin(p, l) ==
    /\ inst[p].pc \in {"idle", "done"}
    /\ Quiet(p)
    /\ runs < MaxRuns
    /\ runs' = runs + 1
    /\ prev' = IF inst[p].pc = "done" THEN Summary(inst[p]) ELSE prev
    /\ inst' = [inst EXCEPT ![p] = l]
    /\ UNCHANGED <<cfg, call>>

\* What server.httpServer?.address?.() can return: nothing (no httpServer, no
\* address function, null), a string (pipe or socket path), an object without
\* a port, an object with port 0, an object with a bound port.
Addresses ==
    { [kind |-> "null", hasPort |-> FALSE, port |-> 0],
      [kind |-> "string", hasPort |-> FALSE, port |-> 0],
      [kind |-> "object", hasPort |-> FALSE, port |-> 0],
      [kind |-> "object", hasPort |-> TRUE, port |-> 0] }
    \cup { [kind |-> "object", hasPort |-> TRUE, port |-> n] : n \in LocalPorts }

\* addr && typeof addr === "object" && "port" in addr ? addr.port : undefined
\* (undefined is NoPort)
vitePort(addr) ==
    IF addr.kind = "object" /\ addr.hasPort THEN addr.port ELSE NoPort

\* !vitePort
Falsy(n) == n = NoPort \/ n = 0

\* The dev server is listening on a port: wireDomain starts the bootstrap.
StartRun(p) ==
    \E d \in Domains, addr \in Addresses, listen \in ListenOptions,
       ins \in BOOLEAN, fail \in BOOLEAN :
        /\ ~Falsy(vitePort(addr))
        /\ Begin(p, [Blank("getRoot") EXCEPT !.domain = d, !.port = vitePort(addr),
                                             !.listen = listen, !.insertFirst = ins,
                                             !.failOnActiveDomain = fail, !.cfg0 = cfg])

\* Variant of StartRunNoPort: without a port the run starts the bootstrap.
StartRunNoPortProceeds(p) ==
    \E d \in Domains, addr \in Addresses, fail \in BOOLEAN :
        /\ Falsy(vitePort(addr))
        /\ Begin(p, [Blank("getRoot") EXCEPT !.domain = d, !.port = 0,
                                             !.failOnActiveDomain = fail, !.cfg0 = cfg])

\* if (!vitePort) throw new Error("Unable to determine Vite dev server port")
\* (the run keeps 0 for every falsy port)
StartRunNoPort(p) ==
    \E d \in Domains, addr \in Addresses, fail \in BOOLEAN :
        /\ Falsy(vitePort(addr))
        /\ Begin(p, Threw([Blank("start") EXCEPT !.domain = d, !.port = 0,
                                                 !.failOnActiveDomain = fail,
                                                 !.cfg0 = cfg]))

Boot(p, pcs) ==
    /\ inst[p].pc \in pcs
    /\ LET r == BootStep(cfg, inst[p])
       IN /\ cfg' = r.c
          /\ inst' = [inst EXCEPT ![p] = r.l]
    /\ UNCHANGED <<runs, prev, call>>

GetRoot(p) == Boot(p, {"getRoot"})

SeedConfig(p) == Boot(p, {"postLoad"})

GetServer(p) == Boot(p, {"getServer"})

EnsurePathGet(p) == Boot(p, {"getApps", "getHttp", "getServers", "tlsGetApps"})

EnsurePathPut(p) == Boot(p, {"putApps", "putHttp", "putServers", "tlsPutApps"})

CreateServer(p) == Boot(p, {"putServer"})

GetListen(p) == Boot(p, {"getListen"})

UpdateListen(p) == Boot(p, {"putListen"})

GetAutoHttps(p) == Boot(p, {"getAuto"})

EnableAutoHttps(p) == Boot(p, {"putAuto"})

TlsContainerGet(p) == Boot(p, {"getTls", "getAutomation", "getPolPath"})

TlsContainerPut(p) == Boot(p, {"putTls", "putAutomation", "putPolPath"})

GetPolicies(p) == Boot(p, {"getPolicies"})

AddPolicy(p) == Boot(p, {"postPolicy"})

\* console.log of the resolved URL
Printed(l) == [l EXCEPT !.printed = @ + 1]

Finished(l) == [l EXCEPT !.pc = "done", !.outcome = "ok"]

\* Variant of Lookup: a found route is probed also when it has no port.
LookupProbesAlways(c, l) ==
    LET routes == c.routes.v
        index  == findRouteByHost(routes, l.domain)
        port   == IF index = -1 THEN NoPort
                  ELSE extractUpstreamPort(routes[index + 1])
        l2     == Answered(Sent([l EXCEPT !.looked = TRUE, !.seen = routes,
                                          !.idx = index, !.existingPort = port],
                                Req("GET", "routes")),
                           c.routes.has)
    IN Goto(l2, IF index = -1 THEN "addRoute" ELSE "probe")

\* getRoutes, findRouteByHost, extractUpstreamPort and the first two branches
\* of wireDomain.
Lookup(c, l) ==
    LET routes == c.routes.v
        index  == findRouteByHost(routes, l.domain)
        port   == IF index = -1 THEN NoPort
                  ELSE extractUpstreamPort(routes[index + 1])
        l2     == Answered(Sent([l EXCEPT !.looked = TRUE, !.seen = routes,
                                          !.idx = index, !.existingPort = port],
                                Req("GET", "routes")),
                           c.routes.has)
    IN Goto(l2, IF index = -1 THEN "addRoute"
                ELSE IF port = NoPort \/ port = 0 THEN "replace"
                ELSE "probe")

GetRoutes(p) ==
    /\ inst[p].pc = "getRoutes"
    /\ inst' = [inst EXCEPT ![p] = Lookup(cfg, inst[p])]
    /\ UNCHANGED <<cfg, runs, prev, call>>

\* Variant of addRoute: the route is always appended, insertFirst is ignored.
addRouteAlwaysAppend(p) ==
    /\ inst[p].pc = "addRoute"
    /\ LET l     == inst[p]
           route == MkRoute(l.domain, l.port)
           r     == RouteReq("POST", -1, route)
       IN IF cfg.server
          THEN /\ cfg' = PostRoute(cfg, route)
               /\ inst' = [inst EXCEPT ![p] = Finished(Printed(Answered(Sent(l, r), TRUE)))]
          ELSE /\ cfg' = cfg
               /\ inst' = [inst EXCEPT ![p] = Threw(Answered(Sent(l, r), FALSE))]
    /\ UNCHANGED <<runs, prev, call>>

addRoute(p) ==
    /\ inst[p].pc = "addRoute"
    /\ LET l     == inst[p]
           route == MkRoute(l.domain, l.port)
           r     == IF l.insertFirst THEN RouteReq("PUT", 0, route)
                    ELSE RouteReq("POST", -1, route)
           ok    == IF l.insertFirst THEN RouteWriteOk(cfg, 0) ELSE cfg.server
       IN IF ok
          THEN /\ cfg' = IF l.insertFirst THEN PutRouteAt(cfg, 0, route)
                         ELSE PostRoute(cfg, route)
               /\ inst' = [inst EXCEPT ![p] = Finished(Printed(Answered(Sent(l, r), TRUE)))]
          ELSE /\ cfg' = cfg
               /\ inst' = [inst EXCEPT ![p] = Threw(Answered(Sent(l, r), FALSE))]
    /\ UNCHANGED <<runs, prev, call>>

\* Variant of replaceRouteAt: the body keeps the match conditions of the route
\* that was found and changes its handlers only.
replaceRouteAtPatch(p) ==
    /\ inst[p].pc = "replace"
    /\ LET l     == inst[p]
           route == [MkRoute(l.domain, l.port) EXCEPT !.match = l.seen[l.idx + 1].match]
           r     == RouteReq("PUT", l.idx, route)
       IN IF RouteWriteOk(cfg, l.idx)
          THEN /\ cfg' = PutRouteAt(cfg, l.idx, route)
               /\ inst' = [inst EXCEPT ![p] = Finished(Printed(Answered(Sent(l, r), TRUE)))]
          ELSE /\ cfg' = cfg
               /\ inst' = [inst EXCEPT ![p] = Threw(Answered(Sent(l, r), FALSE))]
    /\ UNCHANGED <<runs, prev, call>>

\* Variant of replaceRouteAt: the admin API overwrites the element at the
\* index instead of inserting before it.
replaceRouteAtInPlace(p) ==
    /\ inst[p].pc = "replace"
    /\ LET l     == inst[p]
           route == MkRoute(l.domain, l.port)
           r     == RouteReq("PUT", l.idx, route)
       IN IF cfg.server /\ l.idx < Len(cfg.routes.v)
          THEN /\ cfg' = [cfg EXCEPT !.routes =
                                 Some([cfg.routes.v EXCEPT ![l.idx + 1] = route])]
               /\ inst' = [inst EXCEPT ![p] = Finished(Printed(Answered(Sent(l, r), TRUE)))]
          ELSE /\ cfg' = cfg
               /\ inst' = [inst EXCEPT ![p] = Threw(Answered(Sent(l, r), FALSE))]
    /\ UNCHANGED <<runs, prev, call>>

replaceRouteAt(p) ==
    /\ inst[p].pc = "replace"
    /\ LET l     == inst[p]
           route == MkRoute(l.domain, l.port)
           r     == RouteReq("PUT", l.idx, route)
       IN IF RouteWriteOk(cfg, l.idx)
          THEN /\ cfg' = PutRouteAt(cfg, l.idx, route)
               /\ inst' = [inst EXCEPT ![p] = Finished(Printed(Answered(Sent(l, r), TRUE)))]
          ELSE /\ cfg' = cfg
               /\ inst' = [inst EXCEPT ![p] = Threw(Answered(Sent(l, r), FALSE))]
    /\ UNCHANGED <<runs, prev, call>>

(***************************************************************************)
(* isPortActive: a timer and a connection attempt race for one result.     *)
(***************************************************************************)
\* Variant of ProbeDone: no test of `resolved`, every call resolves.
ProbeDoneUnguarded(pr, val) ==
    [pr EXCEPT !.resolved = TRUE, !.aborted = TRUE, !.result = val,
               !.resolves = @ + 1]

\* done(val)
ProbeDone(pr, val) ==
    IF pr.resolved THEN pr
    ELSE [pr EXCEPT !.resolved = TRUE, !.aborted = TRUE, !.result = val,
                    !.resolves = @ + 1]

\* clearTimeout(timer)
ClearTimer(pr) == [pr EXCEPT !.timer = IF @ = "armed" THEN "cleared" ELSE @]

\* new Promise(...): the timer is armed and the connection attempt started.
ProbeStart(p) ==
    /\ inst[p].pc = "probe"
    /\ inst' = [inst EXCEPT ![p] =
                  Goto(Sent([inst[p] EXCEPT !.probe = [NoProbe EXCEPT !.timer = "armed",
                                                                      !.conn = "pending"]],
                            ProbeReq(inst[p].existingPort)),
                       "probing")]
    /\ UNCHANGED <<cfg, runs, prev, call>>

\* Variant of ConnectThen: the timer is left armed.
ConnectThenKeepsTimer(p) ==
    /\ inst[p].probe.conn = "pending"
    /\ ~inst[p].exited
    /\ inst' = [inst EXCEPT ![p].probe =
                  IF @.resolved THEN [@ EXCEPT !.conn = "closed"]
                  ELSE [@ EXCEPT !.conn = "closed", !.resolved = TRUE, !.aborted = TRUE,
                                 !.result = TRUE, !.resolves = @ + 1]]
    /\ UNCHANGED <<cfg, runs, prev, call>>

\* .then((conn) => { clearTimeout(timer); conn.close(); done(true); })
ConnectThen(p) ==
    /\ inst[p].probe.conn = "pending"
    /\ ~inst[p].exited
    /\ inst' = [inst EXCEPT ![p].probe =
                  ProbeDone([ClearTimer(@) EXCEPT !.conn = "closed"], TRUE)]
    /\ UNCHANGED <<cfg, runs, prev, call>>

\* .catch(() => { clearTimeout(timer); done(false); })
ConnectCatch(p) ==
    /\ inst[p].probe.conn = "pending"
    /\ ~inst[p].exited
    /\ inst' = [inst EXCEPT ![p].probe =
                  ProbeDone([ClearTimer(@) EXCEPT !.conn = "failed"], FALSE)]
    /\ UNCHANGED <<cfg, runs, prev, call>>

\* Variant of TimerFires: the timeout callback runs without calling done(false).
TimerFiresNoResolve(p) ==
    /\ inst[p].probe.timer = "armed"
    /\ ~inst[p].exited
    /\ inst' = [inst EXCEPT ![p].probe = [@ EXCEPT !.timer = "fired"]]
    /\ UNCHANGED <<cfg, runs, prev, call>>

\* setTimeout(() => done(false), timeoutMs)
TimerFires(p) ==
    /\ inst[p].probe.timer = "armed"
    /\ ~inst[p].exited
    /\ inst' = [inst EXCEPT ![p].probe = ProbeDone([@ EXCEPT !.timer = "fired"], FALSE)]
    /\ UNCHANGED <<cfg, runs, prev, call>>

(***************************************************************************)
(* wireDomain after `await isPortActive(existingPort)`                     *)
(***************************************************************************)
\* Variant of Probed: wireDomain goes on without awaiting the probe's result.
ProbedEarly(p) == inst[p].pc = "probing"

Probed(p) == inst[p].pc = "probing" /\ inst[p].probe.resolved

\* Variant of AlreadyCorrect: the route is rewritten although it is correct.
AlreadyCorrectRewrite(p) ==
    /\ Probed(p)
    /\ inst[p].probe.result
    /\ inst[p].existingPort = inst[p].port
    /\ inst' = [inst EXCEPT ![p] = Goto(@, "replace")]
    /\ UNCHANGED <<cfg, runs, prev, call>>

\* active && existingPort === vitePort
AlreadyCorrect(p) ==
    /\ Probed(p)
    /\ inst[p].probe.result
    /\ inst[p].existingPort = inst[p].port
    /\ inst' = [inst EXCEPT ![p] = Finished(Printed(@))]
    /\ UNCHANGED <<cfg, runs, prev, call>>

\* Variant of ConflictFailFast: the conflict is logged and the route is
\* overwritten all the same.
ConflictFailFastOverwrite(p) ==
    /\ Probed(p)
    /\ inst[p].probe.result
    /\ inst[p].existingPort # inst[p].port
    /\ inst[p].failOnActiveDomain
    /\ inst' = [inst EXCEPT ![p] = Goto([@ EXCEPT !.errLogged = TRUE], "replace")]
    /\ UNCHANGED <<cfg, runs, prev, call>>

\* active, another port, opt.failOnActiveDomain:
\* err(msg); await server.close?.(); Deno.exit(1)
ConflictFailFast(p) ==
    /\ Probed(p)
    /\ inst[p].probe.result
    /\ inst[p].existingPort # inst[p].port
    /\ inst[p].failOnActiveDomain
    /\ inst' = [inst EXCEPT ![p] = [@ EXCEPT !.pc = "done", !.outcome = "exit",
                                             !.errLogged = TRUE, !.closed = TRUE,
                                             !.exited = TRUE]]
    /\ UNCHANGED <<cfg, runs, prev, call>>

\* Variant of ConflictPermissive: after the warning the run falls through to
\* the replacement.
ConflictPermissiveFallThrough(p) ==
    /\ Probed(p)
    /\ inst[p].probe.result
    /\ inst[p].existingPort # inst[p].port
    /\ ~inst[p].failOnActiveDomain
    /\ inst' = [inst EXCEPT ![p] = Goto([@ EXCEPT !.warned = TRUE], "replace")]
    /\ UNCHANGED <<cfg, runs, prev, call>>

\* Variant of ConflictPermissive: the status line is printed after the warning.
ConflictPermissivePrints(p) ==
    /\ inst[p].pc = "probing" /\ inst[p].probe.resolved
    /\ inst[p].probe.result
    /\ inst[p].existingPort # inst[p].port
    /\ ~inst[p].failOnActiveDomain
    /\ inst' = [inst EXCEPT ![p] = [@ EXCEPT !.pc = "done", !.outcome = "conflict",
                                             !.warned = TRUE, !.printed = @ + 1]]
    /\ UNCHANGED <<cfg, runs, prev, call>>

\* active, another port, permissive: warn(msg); return
ConflictPermissive(p) ==
    /\ Probed(p)
    /\ inst[p].probe.result
    /\ inst[p].existingPort # inst[p].port
    /\ ~inst[p].failOnActiveDomain
    /\ inst' = [inst EXCEPT ![p] = [@ EXCEPT !.pc = "done", !.outcome = "conflict",
                                             !.warned = TRUE]]
    /\ UNCHANGED <<cfg, runs, prev, call>>

\* Variant of Stale: a probe that timed out is treated as a fatal error.
StaleTimeoutFatal(p) ==
    /\ Probed(p)
    /\ ~inst[p].probe.result
    /\ inst' = [inst EXCEPT ![p] =
                  IF @.probe.timer = "fired" THEN Threw(@)
                  ELSE IF @.existingPort # @.port THEN Goto(@, "replace")
                  ELSE Finished(Printed(@))]
    /\ UNCHANGED <<cfg, runs, prev, call>>

\* Variant of Stale: the route is replaced also when it already points at the
\* local port.
StaleAlwaysReplaces(p) ==
    /\ Probed(p)
    /\ ~inst[p].probe.result
    /\ inst' = [inst EXCEPT ![p] = Goto(@, "replace")]
    /\ UNCHANGED <<cfg, runs, prev, call>>

\* not active: if (existingPort !== vitePort) replaceRouteAt(...); print
Stale(p) ==
    /\ Probed(p)
    /\ ~inst[p].probe.result
    /\ inst' = [inst EXCEPT ![p] =
                  IF @.existingPort # @.port THEN Goto(@, "replace")
                  ELSE Finished(Printed(@))]
    /\ UNCHANGED <<cfg, runs, prev, call>>

Next ==
    \E p \in Inst :
        \/ StartRun(p)
        \/ StartRunNoPort(p)
        \/ GetRoot(p)
        \/ SeedConfig(p)
        \/ GetServer(p)
        \/ EnsurePathGet(p)
        \/ EnsurePathPut(p)
        \/ CreateServer(p)
        \/ GetListen(p)
        \/ UpdateListen(p)
        \/ GetAutoHttps(p)
        \/ EnableAutoHttps(p)
        \/ TlsContainerGet(p)
        \/ TlsContainerPut(p)
        \/ GetPolicies(p)
        \/ AddPolicy(p)
        \/ GetRoutes(p)
        \/ addRoute(p)
        \/ replaceRouteAt(p)
        \/ ProbeStart(p)
        \/ ConnectThen(p)
        \/ ConnectCatch(p)
        \/ TimerFires(p)
        \/ AlreadyCorrect(p)
        \/ ConflictFailFast(p)
        \/ ConflictPermissive(p)
        \/ Stale(p)

Spec == Init /\ [][Next]_vars

(***************************************************************************)
(* Bootstrap alone: one run of ensureCaddyServerExists from each of a      *)
(* wide set of starting trees.                                             *)
(***************************************************************************)
BootListens ==
    {Absent, Some(DefaultListen), Some(<<Addr(8443)>>), Some(<<Addr(80), Addr(443)>>),
     Some(<<Addr(443), Addr(443)>>)}

BootPolicies ==
    { <<>>,
      <<InternalPolicy(D1)>>,
      <<[subjects |-> <<D1>>, issuers |-> <<"acme">>]>>,
      <<InternalPolicy(OtherHost)>>,
      <<[subjects |-> <<D1>>, issuers |-> <<"acme">>], InternalPolicy(D2)>>,
      <<[subjects |-> <<OtherHost, D1>>, issuers |-> <<"acme", "internal">>]>> }

BootHttp ==
    {Containers(k) : k \in 2..4}
    \cup {ServerTree(ls, Some(<<Proxy(<<OtherHost>>, 9000)>>), au) :
            ls \in BootListens, au \in {NoAuto, AutoOff, AutoOn, AutoSkipOnly}}

BootTrees ==
    {Containers(0), Containers(1)}
    \cup {WithTls(c, k, <<>>) : c \in BootHttp, k \in 0..2}
    \cup {WithTls(c, 3, ps) : c \in BootHttp, ps \in BootPolicies}

InitBoot ==
    /\ cfg \in BootTrees
    /\ inst = [p \in Inst |-> IF p = 1 THEN Blank("idle") ELSE Blank("off")]
    /\ runs = 0
    /\ prev = NoPrev
    /\ call = NoCall

NextBoot ==
    \E p \in Inst :
        \/ StartRun(p)
        \/ GetRoot(p)
        \/ SeedConfig(p)
        \/ GetServer(p)
        \/ EnsurePathGet(p)
        \/ EnsurePathPut(p)
        \/ CreateServer(p)
        \/ GetListen(p)
        \/ UpdateListen(p)
        \/ GetAutoHttps(p)
        \/ EnableAutoHttps(p)
        \/ TlsContainerGet(p)
        \/ TlsContainerPut(p)
        \/ GetPolicies(p)
        \/ AddPolicy(p)

SpecBoot == InitBoot /\ [][NextBoot]_vars

(***************************************************************************)
(* Properties                                                              *)
(***************************************************************************)
IsRouteWrite(r) == r.path = "routes" /\ r.m \in {"PUT", "POST"}

IsProbe(r) == r.m = "PROBE"

RouteWrites(l) == SelectSeq(l.log, IsRouteWrite)

Probes(l) == SelectSeq(l.log, IsProbe)

Done(p) == inst[p].pc = "done"

\* The text "127.0.0.1:<port>" for the ports of the model, written out.
DialText(port) ==
    CASE port = 5173 -> <<"1", "2", "7", ".", "0", ".", "0", ".", "1", ":", "5", "1", "7", "3">>
      [] port = 5174 -> <<"1", "2", "7", ".", "0", ".", "0", ".", "1", ":", "5", "1", "7", "4">>

\* The route the spec describes for (domain, port).
FreshRoute(domain, port) ==
    [match    |-> << [host |-> <<domain>>] >>,
     handle   |-> << [handler |-> "reverse_proxy",
                      upstreams |-> << [dial |-> DialText(port)] >>] >>,
     terminal |-> TRUE]

\* The lookup found no route for the run's domain.
NoRouteFound(p) == Done(p) /\ inst[p].looked /\ inst[p].idx = -1

\* The lookup found a route with a parseable upstream port and probed it.
ProbedRoute(p) ==
    /\ Done(p)
    /\ inst[p].looked
    /\ inst[p].idx >= 0
    /\ inst[p].existingPort > 0
    /\ inst[p].probe.resolved

ActiveElsewhere(p) ==
    ProbedRoute(p) /\ inst[p].probe.result /\ inst[p].existingPort # inst[p].port

\* C1: a run that finds no route for its domain D (also when the route list
\* is absent) issues exactly one route-creation write, whose body is the
\* route with match host [D], one reverse_proxy handler with the single
\* upstream 127.0.0.1:P and terminal = true, and it makes no liveness probe.
C1_CreateWhenNoRoute ==
    \A p \in Inst :
        NoRouteFound(p) =>
            LET l == inst[p]
                w == RouteWrites(l)
            IN /\ Len(w) = 1
               /\ w[1].route = FreshRoute(l.domain, l.port)
               /\ \/ w[1].m = "PUT" /\ w[1].idx = 0
                  \/ w[1].m = "POST" /\ w[1].idx = -1
               /\ Probes(l) = <<>>

\* C1 witness: a finished run that found the route list absent and created
\* the route.
C1_Witness ==
    \E p \in Inst :
        /\ NoRouteFound(p)
        /\ inst[p].cfg0.server
        /\ ~inst[p].cfg0.routes.has
        /\ inst[p].outcome = "ok"
        /\ Len(RouteWrites(inst[p])) = 1

\* C2: when the route found for D has a parseable upstream port E # P and the
\* probe of E reports not active (connection error or timeout), the run
\* issues exactly one route write, a PUT at the found index with the route
\* for 127.0.0.1:P, the route at that index then points at P, and the run
\* completes without error.
C2_ReplaceStale ==
    \A p \in Inst :
        (ProbedRoute(p) /\ ~inst[p].probe.result /\ inst[p].existingPort # inst[p].port) =>
            LET l == inst[p]
                w == RouteWrites(l)
            IN /\ Len(w) = 1
               /\ w[1] = RouteReq("PUT", l.idx, FreshRoute(l.domain, l.port))
               /\ l.outcome = "ok"
               /\ ~l.errLogged
               /\ RouteMatchesHost(cfg.routes.v[l.idx + 1], l.domain)
               /\ extractUpstreamPort(cfg.routes.v[l.idx + 1]) = l.port

\* C2 witness: the probe timed out (the timer fired before the connection
\* settled) and the run replaced the route and finished.
C2_Witness ==
    \E p \in Inst :
        /\ ProbedRoute(p)
        /\ ~inst[p].probe.result
        /\ inst[p].probe.timer = "fired"
        /\ inst[p].existingPort # inst[p].port
        /\ inst[p].outcome = "ok"

\* C3: when the route found for D has an alive upstream port E # P and
\* failOnActiveDomain is true, the run ends in failure with the conflict
\* reported as an error, prints no status line and issues no route write:
\* the route list is the one the run read.  (How the failure reaches the
\* caller is claim C4.)
C3_FailFastNoWrite ==
    \A p \in Inst :
        (ActiveElsewhere(p) /\ inst[p].failOnActiveDomain) =>
            LET l == inst[p]
            IN /\ l.errLogged
               /\ l.outcome \notin {"ok", "conflict", "none"}
               /\ l.printed = 0
               /\ RouteWrites(l) = <<>>
               /\ cfg.routes = Some(l.seen)
               /\ cfg.routes = l.cfg0.routes

\* C3 witness: a fail-fast conflict happened.
C3_Witness ==
    \E p \in Inst :
        /\ ActiveElsewhere(p)
        /\ inst[p].failOnActiveDomain
        /\ inst[p].errLogged

\* C4 (as claimed): on a fail-fast conflict the engine only signals the
\* error; it neither closes the dev server nor terminates the process.
C4_Orig ==
    \A p \in Inst :
        (ActiveElsewhere(p) /\ inst[p].failOnActiveDomain) =>
            (~inst[p].closed /\ ~inst[p].exited)

\* C5: when the route found for D has an alive upstream port E # P and the
\* policy is permissive, the run issues no route write, does not close the
\* dev server, does not exit, raises no error, and the route for D still
\* points at E.
C5_PermissiveUntouched ==
    \A p \in Inst :
        (ActiveElsewhere(p) /\ ~inst[p].failOnActiveDomain) =>
            LET l == inst[p]
                i == findRouteByHost(cfg.routes.v, l.domain)
            IN /\ RouteWrites(l) = <<>>
               /\ ~l.closed
               /\ ~l.exited
               /\ ~l.errLogged
               /\ l.outcome = "conflict"
               /\ cfg.routes = Some(l.seen)
               /\ i = l.idx
               /\ extractUpstreamPort(cfg.routes.v[i + 1]) = l.existingPort

\* C5 witness: a permissive conflict happened and was warned about.
C5_Witness ==
    \E p \in Inst :
        /\ ActiveElsewhere(p)
        /\ ~inst[p].failOnActiveDomain
        /\ inst[p].warned

\* C6: when the route found for D has an alive upstream port E = P, the run
\* issues no route write and completes successfully.
C6_AlreadyCorrect ==
    \A p \in Inst :
        (ProbedRoute(p) /\ inst[p].probe.result /\ inst[p].existingPort = inst[p].port) =>
            /\ RouteWrites(inst[p]) = <<>>
            /\ inst[p].outcome = "ok"
            /\ cfg.routes = Some(inst[p].seen)

\* C6 witness: the probed port was alive and was the local port.
C6_Witness ==
    \E p \in Inst :
        /\ ProbedRoute(p)
        /\ inst[p].probe.result
        /\ inst[p].existingPort = inst[p].port
        /\ inst[p].outcome = "ok"

MatchCount(c, d) ==
    Cardinality({i \in 1..Len(c.routes.v) : RouteMatchesHost(c.routes.v[i], d)})

\* C7 (as claimed): at most one route of the managed server matches a
\* managed domain, after any sequence of runs from a configuration in which
\* at most one route matches it.
C7_Orig == \A d \in Domains : MatchCount(cfg, d) <= 1

\* C8: creating a route leaves the routes that were there unchanged and in
\* order: the new list is the previous list with the new route prepended
\* (insertFirst) or appended (otherwise).
C8_CreateKeepsOthers ==
    \A p \in Inst :
        (NoRouteFound(p) /\ inst[p].outcome = "ok") =>
            LET l   == inst[p]
                new == FreshRoute(l.domain, l.port)
            IN /\ cfg.routes.has
               /\ cfg.routes.v = IF l.insertFirst THEN <<new>> \o l.seen
                                 ELSE l.seen \o <<new>>
               /\ l.cfg0.server => l.seen = l.cfg0.routes.v

\* C8 witness: a route was created next to routes that were already there,
\* once at the front and, in another run, at the end.
C8_Witness ==
    \E p \in Inst :
        /\ NoRouteFound(p)
        /\ inst[p].outcome = "ok"
        /\ Len(inst[p].seen) >= 2
        /\ ~inst[p].insertFirst

HasRouteTo(c, d, port) ==
    \E i \in 1..Len(c.routes.v) :
        /\ RouteMatchesHost(c.routes.v[i], d)
        /\ extractUpstreamPort(c.routes.v[i]) = port

HasInternalPolicy(c, d) ==
    \E i \in 1..Len(c.policies.v) :
        /\ SeqIncludes(c.policies.v[i].subjects, d)
        /\ SeqIncludes(c.policies.v[i].issuers, "internal")

\* Two runs, one after the other, for distinct domains and distinct ports,
\* the first from a configuration without a route for a managed domain.
TwoProjects(p) ==
    /\ Done(p)
    /\ prev.valid
    /\ prev.clean
    /\ prev.domain # inst[p].domain
    /\ prev.port # 0
    /\ inst[p].port # 0
    /\ prev.port # inst[p].port

\* C9: after two instances with distinct domains and distinct ports have
\* reconciled one after the other against the same server, the server has a
\* route for each domain pointing at its port, and a TLS policy with the
\* internal issuer exists for each domain.
C9_TwoProjects ==
    \A p \in Inst :
        TwoProjects(p) =>
            /\ prev.outcome = "ok"
            /\ inst[p].outcome = "ok"
            /\ HasRouteTo(cfg, prev.domain, prev.port)
            /\ HasRouteTo(cfg, inst[p].domain, inst[p].port)
            /\ HasInternalPolicy(cfg, prev.domain)
            /\ HasInternalPolicy(cfg, inst[p].domain)

\* C9 witness: two such runs have completed, the first on an unset root.
C9_Witness ==
    \E p \in Inst :
        /\ TwoProjects(p)
        /\ HasRouteTo(cfg, D1, 5173)
        /\ HasRouteTo(cfg, D2, 5174)

NoDup(s) == \A i, j \in 1..Len(s) : s[i] = s[j] => i = j

CoverCount(c, d) ==
    Cardinality({i \in 1..Len(c.policies.v) :
                    /\ SeqIncludes(c.policies.v[i].subjects, d)
                    /\ SeqIncludes(c.policies.v[i].issuers, "internal")})

BootFinished(p) == inst[p].pc = "getRoutes"

LogHas(l, m, path) == \E i \in 1..Len(l.log) : l.log[i].m = m /\ l.log[i].path = path

\* C11: after a bootstrap the server's listen list contains every desired
\* address and every address it had before; the list is written exactly when
\* the server existed and the union differs from the current list (an
\* address is missing, or the current list repeats one).
C11_ListenSuperset ==
    \A p \in Inst :
        BootFinished(p) =>
            LET l   == inst[p]
                old == l.cfg0.listen.v
                new == cfg.listen.v
            IN /\ \A i \in 1..Len(l.listen) : SeqIncludes(new, l.listen[i])
               /\ \A i \in 1..Len(old) : SeqIncludes(new, old[i])
               /\ LogHas(l, "PUT", "listen") <=>
                    /\ l.cfg0.server
                    /\ \/ ~NoDup(old)
                       \/ \E i \in 1..Len(l.listen) : ~SeqIncludes(old, l.listen[i])

\* C11 witness: the server listened on :8443 only; the bootstrap added the
\* desired addresses behind it.
C11_Witness ==
    \E p \in Inst :
        /\ BootFinished(p)
        /\ inst[p].cfg0.listen = Some(<<Addr(8443)>>)
        /\ cfg.listen.v = <<Addr(8443), Addr(443), Addr(80)>>
        /\ LogHas(inst[p], "PUT", "listen")

\* The run of p has its bootstrap behind it.
BootPassed(p) ==
    \/ inst[p].pc \in {"getRoutes", "addRoute", "replace", "probe", "probing"}
    \/ Done(p) /\ inst[p].looked

\* C12: starting with at most one policy entry that has both D among its
\* subjects and an internal issuer, there is never more than one such entry
\* for a managed domain, and after every bootstrap for D there is exactly one.
C12_OnePolicy ==
    /\ \A d \in Domains : CoverCount(cfg, d) <= 1
    /\ \A p \in Inst : BootPassed(p) => CoverCount(cfg, inst[p].domain) = 1

\* C12 witness: two runs for D1 have completed on a tree that had D1 under
\* another issuer and an internal issuer under another subject; one entry
\* was appended, once.
C12_Witness ==
    \E p \in Inst :
        /\ Done(p)
        /\ inst[p].looked
        /\ prev.valid
        /\ prev.outcome = "ok"
        /\ prev.domain = D1
        /\ inst[p].domain = D1
        /\ cfg.policies.v = <<[subjects |-> <<D1>>, issuers |-> <<"acme">>],
                              [subjects |-> <<OtherHost>>, issuers |-> <<"internal">>],
                              [subjects |-> <<D1>>, issuers |-> <<"internal">>]>>

\* C13: a bootstrap on a tree whose root is present leaves the policy list
\* as it was, or as it was followed by one entry for D with the internal
\* issuer.
C13_PoliciesKept ==
    \A p \in Inst :
        (BootFinished(p) /\ inst[p].cfg0.root) =>
            LET old == inst[p].cfg0.policies.v
                new == cfg.policies.v
            IN \/ new = old
               \/ new = old \o <<[subjects |-> <<inst[p].domain>>,
                                  issuers |-> <<"internal">>]>>

\* C13 witness: an entry was appended behind entries that were there.
C13_Witness ==
    \E p \in Inst :
        /\ BootFinished(p)
        /\ Len(inst[p].cfg0.policies.v) = 2
        /\ Len(cfg.policies.v) = 3

(***************************************************************************)
(* The admin API answering non-2xx.  A read (get, or fetch with a test of  *)
(* r.ok) then yields "absent" although the resource may exist; a write     *)
(* through req() throws.                                                   *)
(***************************************************************************)
GetPcs ==
    {"getRoot", "getServer", "getApps", "getHttp", "getServers", "getListen",
     "getAuto", "tlsGetApps", "getTls", "getAutomation", "getPolPath",
     "getPolicies"}

WritePcs == BootPcs \ GetPcs

\* A bootstrap GET is answered non-2xx: the code goes on as on an absent path.
ReadFails(p) ==
    /\ inst[p].pc \in GetPcs
    /\ inst' = [inst EXCEPT ![p] = BootStep(EmptyTree, inst[p]).l]
    /\ UNCHANGED <<cfg, runs, prev, call>>

\* The GET of the route list is answered non-2xx: routes is undefined.
RoutesReadFails(p) ==
    /\ inst[p].pc = "getRoutes"
    /\ inst' = [inst EXCEPT ![p] = Lookup(EmptyTree, inst[p])]
    /\ UNCHANGED <<cfg, runs, prev, call>>

\* A bootstrap PUT/POST is answered non-2xx: req() throws, the tree is as it was.
WriteFails(p) ==
    /\ inst[p].pc \in WritePcs
    /\ LET sent == BootStep(cfg, inst[p]).l.log
       IN \E resp \in Refusals :
             inst' = [inst EXCEPT ![p] =
                        Threw(AnsweredWith(Sent(@, sent[Len(sent)]), resp))]
    /\ UNCHANGED <<cfg, runs, prev, call>>

\* The request addRoute / replaceRouteAt sends.
RouteWrite(l) ==
    IF l.pc = "replace" THEN RouteReq("PUT", l.idx, MkRoute(l.domain, l.port))
    ELSE IF l.insertFirst THEN RouteReq("PUT", 0, MkRoute(l.domain, l.port))
    ELSE RouteReq("POST", -1, MkRoute(l.domain, l.port))

\* The route write is answered non-2xx.
RouteWriteFails(p) ==
    /\ inst[p].pc \in {"addRoute", "replace"}
    /\ \E resp \in Refusals :
          inst' = [inst EXCEPT ![p] = Threw(AnsweredWith(Sent(@, RouteWrite(@)), resp))]
    /\ UNCHANGED <<cfg, runs, prev, call>>

NextFault ==
    \/ Next
    \/ \E p \in Inst :
        \/ ReadFails(p)
        \/ RoutesReadFails(p)
        \/ WriteFails(p)
        \/ RouteWriteFails(p)

\* Faults are explored over one run: the last run of a session.
InitFault ==
    /\ cfg \in InitTrees
    /\ inst = [p \in Inst |-> IF p = 1 THEN Blank("idle") ELSE Blank("off")]
    /\ runs = MaxRuns - 1
    /\ prev = NoPrev
    /\ call = NoCall

SpecFault == InitFault /\ [][NextFault]_vars

(***************************************************************************)
(* Failure semantics of the admin calls                                    *)
(***************************************************************************)
LastReq(l) == l.log[Len(l.log)]

FailedWrite(l) ==
    /\ l.status = "non2xx"
    /\ Len(l.log) > 0
    /\ LastReq(l).m \in {"PUT", "POST"}

FailedRead(l) ==
    /\ l.status = "non2xx"
    /\ Len(l.log) > 0
    /\ LastReq(l).m = "GET"

\* C14: a PUT or POST answered non-2xx ends the run in an error: the failed
\* request is the last request of the run (no retry, no route lookup, no route
\* write after it) and no status line is printed.
C14_WriteFailureStops ==
    \A p \in Inst :
        FailedWrite(inst[p]) =>
            /\ inst[p].pc = "done"
            /\ inst[p].outcome = "threw"
            /\ inst[p].errLogged
            /\ inst[p].printed = 0

\* A bootstrap write was answered non-2xx although the tree would have taken it.
C14_Witness ==
    \E p \in Inst :
        /\ FailedWrite(inst[p])
        /\ LastReq(inst[p]).path \notin {"routes", "load"}
        /\ WriteOk(cfg, LastReq(inst[p]).path)
        /\ inst[p].outcome = "threw"

\* The step the code takes when the GET of a path is answered "absent".
AbsentStep(l, path) ==
    CASE path = "config"     -> {"postLoad"}
      [] path = "server"     -> {"getApps"}
      [] path = "apps"       -> {"putApps", "tlsPutApps"}
      [] path = "http"       -> {"putHttp"}
      [] path = "servers"    -> {"putServers"}
      [] path = "listen"     -> IF l.listen = <<>> THEN {"getAuto"} ELSE {"putListen"}
      [] path = "auto"       -> {"tlsGetApps"}
      [] path = "tls"        -> {"putTls"}
      [] path = "automation" -> {"putAutomation"}
      [] path = "policies"   -> {"putPolPath", "postPolicy"}
      [] path = "routes"     -> {"addRoute"}

\* C15: a GET answered non-2xx, in the bootstrap or in the route lookup, never
\* raises: the run is not failed and stands at the step that creates the
\* resource (or, where there is nothing to create, at the following step).
C15_ReadFailureContinues ==
    \A p \in Inst :
        FailedRead(inst[p]) =>
            /\ inst[p].outcome = "none"
            /\ ~inst[p].errLogged
            /\ inst[p].pc \in AbsentStep(inst[p], LastReq(inst[p]).path)

\* A GET was answered non-2xx although the resource is in the tree.
C15_Witness ==
    \E p \in Inst :
        /\ FailedRead(inst[p])
        /\ LastReq(inst[p]).path \in {"tls", "routes"}
        /\ cfg.tls /\ cfg.routes.has
        /\ inst[p].pc \in {"putTls", "addRoute"}

(***************************************************************************)
(* isPortActive: the race of the timeout and the connection attempt        *)
(***************************************************************************)
\* C16: whatever the order of the timeout callback and the connection
\* callback, isPortActive resolves once: the count of resolutions never
\* exceeds one, and once resolved a later callback leaves result and count.
C16_ResolvesOnce ==
    [][\A p \in Inst :
          /\ inst'[p].probe.resolves <= 1
          /\ inst'[p].probe.resolved <=> inst'[p].probe.resolves = 1
          /\ (inst[p].probe.resolved /\ runs' = runs) =>
                /\ inst'[p].probe.resolved
                /\ inst'[p].probe.result = inst[p].probe.result
                /\ inst'[p].probe.resolves = inst[p].probe.resolves]_vars

\* Both callbacks have run, the timeout and the connection's.
C16_Witness ==
    \E p \in Inst :
        /\ inst[p].probe.timer = "fired"
        /\ inst[p].probe.conn \in {"closed", "failed"}
        /\ inst[p].probe.resolves = 1

\* C17: isPortActive resolves true exactly when the connection succeeded
\* before the timeout callback ran (the timer was cleared, not fired); it
\* resolves false when the attempt failed or the timeout ran first, also when
\* the connection succeeds after the timeout.
C17_TrueIffConnectedInTime ==
    \A p \in Inst :
        inst[p].probe.resolved =>
            (inst[p].probe.result <=>
                (inst[p].probe.conn = "closed" /\ inst[p].probe.timer = "cleared"))

\* The timeout ran first and the connection succeeded afterwards: false.
C17_Witness ==
    \E p \in Inst :
        /\ inst[p].probe.resolved
        /\ inst[p].probe.timer = "fired"
        /\ inst[p].probe.conn = "closed"
        /\ ~inst[p].probe.result

(***************************************************************************)
(* Order of the requests of one run                                        *)
(***************************************************************************)
\* 1 bootstrap request, 2 fetch of the route list, 3 liveness probe,
\* 4 route create or replace.
Phase(r) ==
    IF r.m = "PROBE" THEN 3
    ELSE IF r.path # "routes" THEN 1
    ELSE IF r.m = "GET" THEN 2
    ELSE 4

PhaseCount(l, k) == Cardinality({i \in 1..Len(l.log) : Phase(l.log[i]) = k})

\* C18: in every run the requests are ordered: bootstrap requests, then the
\* one fetch of the route list, then the probe (if any), then the route write
\* (if any), which is issued only once the probe has resolved.
C18_Ordered ==
    \A p \in Inst :
        LET l == inst[p]
        IN /\ \A i, j \in 1..Len(l.log) : i < j => Phase(l.log[i]) <= Phase(l.log[j])
           /\ l.pc \in BootPcs => \A i \in 1..Len(l.log) : Phase(l.log[i]) = 1
           /\ (PhaseCount(l, 3) > 0 \/ PhaseCount(l, 4) > 0) => PhaseCount(l, 2) = 1
           /\ (PhaseCount(l, 3) > 0 /\ (PhaseCount(l, 4) > 0 \/ l.pc = "replace")) =>
                 l.probe.resolved

\* A run that probed, found the port dead and replaced the route.
C18_Witness ==
    \E p \in Inst :
        /\ PhaseCount(inst[p], 1) > 0
        /\ PhaseCount(inst[p], 3) = 1
        /\ PhaseCount(inst[p], 4) = 1
        /\ inst[p].outcome = "ok"

(***************************************************************************)
(* The local port                                                          *)
(***************************************************************************)
Started(p) == inst[p].pc \notin {"off", "idle"}

\* C19: a run whose local port cannot be determined (no address, no port, a
\* falsy port) ends in an error with no admin request issued and the proxy
\* configuration as it was.
C19_NoPortFailsFirst ==
    \A p \in Inst :
        (Started(p) /\ inst[p].port = 0) =>
            /\ inst[p].pc = "done"
            /\ inst[p].outcome = "threw"
            /\ inst[p].errLogged
            /\ inst[p].log = <<>>
            /\ inst[p].printed = 0
            /\ cfg = inst[p].cfg0

\* A run without a port against an admin API that has no configuration yet.
C19_Witness ==
    \E p \in Inst :
        /\ inst[p].pc = "done"
        /\ inst[p].port = 0
        /\ inst[p].outcome = "threw"
        /\ ~cfg.root

(***************************************************************************)
(* The status line                                                         *)
(***************************************************************************)
\* C20: the status line is printed once, at the end of a run that leaves a
\* route for D to the local port P (created, replaced or already correct); it
\* is not printed before the end of a run, nor in a run that ends in a
\* conflict (fail-fast or permissive) or in an error.
C20_StatusLineOnce ==
    \A p \in Inst :
        LET l == inst[p]
        IN /\ l.printed <= 1
           /\ ~Done(p) => l.printed = 0
           /\ Done(p) => l.outcome \in {"ok", "conflict", "exit", "threw"}
           /\ (Done(p) /\ l.outcome = "ok") =>
                 /\ l.printed = 1
                 /\ HasRouteTo(cfg, l.domain, l.port)
           /\ (Done(p) /\ l.outcome # "ok") => l.printed = 0

\* A run that found the route already correct: no route write, one line.
C20_Witness ==
    \E p \in Inst :
        /\ Done(p)
        /\ inst[p].outcome = "ok"
        /\ inst[p].printed = 1
        /\ PhaseCount(inst[p], 3) = 1
        /\ PhaseCount(inst[p], 4) = 0

(***************************************************************************)
(* Domain generation: slugFromFolder, slugFromPkg, computeDomain.          *)
(* A string is a sequence of one-character strings.                        *)
(***************************************************************************)
UpperChars ==
    <<"A", "B", "C", "D", "E", "F", "G", "H", "I", "J", "K", "L", "M",
      "N", "O", "P", "Q", "R", "S", "T", "U", "V", "W", "X", "Y", "Z">>

LowerChars ==
    <<"a", "b", "c", "d", "e", "f", "g", "h", "i", "j", "k", "l", "m",
      "n", "o", "p", "q", "r", "s", "t", "u", "v", "w", "x", "y", "z">>

\* .toLowerCase(), one character
ToLowerChar(ch) ==
    IF \E i \in 1..Len(UpperChars) : UpperChars[i] = ch
    THEN LowerChars[CHOOSE i \in 1..Len(UpperChars) : UpperChars[i] = ch]
    ELSE ch

\* .toLowerCase()
ToLower(s) == [i \in 1..Len(s) |-> ToLowerChar(s[i])]

\* [a-z0-9-]
SlugChar(ch) ==
    \/ \E i \in 1..Len(LowerChars) : LowerChars[i] = ch
    \/ IsDigit(ch)
    \/ ch = "-"

\* basename(dir): the last segment of the path, trailing separators dropped.
RECURSIVE basename(_)
basename(dir) ==
    IF Len(dir) = 0 THEN <<>>
    ELSE IF dir[Len(dir)] = "/" THEN basename(SubSeq(dir, 1, Len(dir) - 1))
    ELSE LET seps == {i \in 1..Len(dir) : dir[i] = "/"}
             from == IF seps = {} THEN 1
                     ELSE 1 + CHOOSE i \in seps : \A j \in seps : j <= i
         IN SubSeq(dir, from, Len(dir))

\* The rest of s after its leading characters outside [a-z0-9-].
RECURSIVE SkipRun(_)
SkipRun(s) ==
    IF Len(s) = 0 \/ SlugChar(Head(s)) THEN s ELSE SkipRun(Tail(s))

\* Variant of ReplaceRuns: the pattern has no `+`, every character outside
\* the class becomes a '-' of its own.
RECURSIVE ReplaceEach(_)
ReplaceEach(s) ==
    IF Len(s) = 0 THEN <<>>
    ELSE IF SlugChar(Head(s)) THEN <<Head(s)>> \o ReplaceEach(Tail(s))
    ELSE <<"-">> \o ReplaceEach(Tail(s))

\* .replace(/[^a-z0-9-]+/g, "-")
RECURSIVE ReplaceRuns(_)
ReplaceRuns(s) ==
    IF Len(s) = 0 THEN <<>>
    ELSE IF SlugChar(Head(s)) THEN <<Head(s)>> \o ReplaceRuns(Tail(s))
    ELSE <<"-">> \o ReplaceRuns(SkipRun(s))

RECURSIVE DropLeadingDashes(_)
DropLeadingDashes(s) ==
    IF Len(s) > 0 /\ Head(s) = "-" THEN DropLeadingDashes(Tail(s)) ELSE s

RECURSIVE DropTrailingDashes(_)
DropTrailingDashes(s) ==
    IF Len(s) > 0 /\ s[Len(s)] = "-"
    THEN DropTrailingDashes(SubSeq(s, 1, Len(s) - 1))
    ELSE s

\* .replace(/^-+|-+$/g, "")
StripDashes(s) == DropTrailingDashes(DropLeadingDashes(s))

\* The slug of a name, as both slug functions compute it.
Slugify(name) == StripDashes(ReplaceRuns(ToLower(name)))

\* slugFromFolder(cwd), cwd given
slugFromFolder(dir) == Slugify(basename(dir))

\* What reading <dir>/package.json gives: no file or no JSON (the read or the
\* parse throws), an object whose name is not a string, an object with a name.
PkgMissing == [kind |-> "missing", name |-> <<>>]

PkgNoName == [kind |-> "noname", name |-> <<>>]

PkgNamed(name) == [kind |-> "named", name |-> name]

\* slugFromPkg(cwd), cwd given; pkg is what the file system holds.
slugFromPkg(dir, pkg) ==
    IF pkg.kind = "missing" THEN slugFromFolder(dir)
    ELSE Slugify(IF pkg.kind = "named" THEN pkg.name ELSE slugFromFolder(dir))

\* cwd ?? Deno.cwd()
DirOf(cwd, env) == IF cwd.has THEN cwd.v ELSE env.cwd

DefaultTld == <<"l", "o", "c", "a", "l", "h", "o", "s", "t">>

\* Variant of computeDomain: a given nameSource takes precedence over the
\* explicit domain.
computeDomainSourceFirst(options, env) ==
    IF options.domain.has /\ options.domain.v # <<>> /\ ~options.nameSource.has
    THEN options.domain.v
    ELSE LET pkgSource == options.nameSource.has /\ options.nameSource.v = "pkg"
             tld       == IF options.tld.has THEN options.tld.v ELSE DefaultTld
             dir       == DirOf(options.cwd, env)
             base      == IF pkgSource THEN slugFromPkg(dir, env.pkg)
                          ELSE slugFromFolder(dir)
         IN base \o <<".">> \o tld

\* computeDomain(options); env is the process's working directory and the
\* package.json it can read.  `if (options.domain)`: "" is falsy.
computeDomain(options, env) ==
    IF options.domain.has /\ options.domain.v # <<>>
    THEN options.domain.v
    ELSE LET pkgSource == options.nameSource.has /\ options.nameSource.v = "pkg"
             tld       == IF options.tld.has THEN options.tld.v ELSE DefaultTld
             dir       == DirOf(options.cwd, env)
             base      == IF pkgSource THEN slugFromPkg(dir, env.pkg)
                          ELSE slugFromFolder(dir)
         IN base \o <<".">> \o tld

(***************************************************************************)
(* pickHttpsPort                                                           *)
(***************************************************************************)
\* listen.map(/:(\d+)$/ ... Number).filter(is number)
RECURSIVE PortsOf(_)
PortsOf(listen) ==
    IF Len(listen) = 0 THEN <<>>
    ELSE LET n == TrailingPort(Head(listen))
         IN (IF n = NoPort THEN <<>> ELSE <<n>>) \o PortsOf(Tail(listen))

\* ports.find((p) => p !== 80), NoPort for undefined
RECURSIVE FirstNot80(_)
FirstNot80(ports) ==
    IF Len(ports) = 0 THEN NoPort
    ELSE IF Head(ports) # 80 THEN Head(ports)
    ELSE FirstNot80(Tail(ports))

\* Variant of pickHttpsPort: no preference for 443, the first port that is
\* not 80 is returned.
pickHttpsPortFirst(listen) == FirstNot80(PortsOf(listen))

pickHttpsPort(listen) ==
    IF SeqIncludes(PortsOf(listen), 443) THEN 443
    ELSE FirstNot80(PortsOf(listen))

(***************************************************************************)
(* The exported helper functions, each called once on an argument drawn    *)
(* from a bounded set.                                                     *)
(***************************************************************************)
SeqsUpTo(S, n) == UNION {[1..k -> S] : k \in 0..n}

Pending(fn, arg) == [fn |-> fn, arg |-> arg, out |-> <<>>, done |-> FALSE]

FolderChars == {"a", "B", "7", "-", "*", "/"}

SlugCalls == {Pending("slugFromFolder", dir) : dir \in SeqsUpTo(FolderChars, MaxNameLen)}

DomainOptions ==
    [domain     : {Absent, Some(<<>>), Some(<<"x", ".", "Y">>)},
     nameSource : {Absent, Some("folder"), Some("pkg")},
     tld        : {Absent, Some(<<"d", "e", "v">>)},
     cwd        : {Absent, Some(<<"/", "w", "/", "M", "y", " ", "A", "p", "p">>)}]

DomainEnvs ==
    [cwd : {<<"/", "h", "/", "f", "o", "o", "_", "1">>},
     pkg : {PkgMissing, PkgNoName, PkgNamed(<<"@", "s", "/", "P", "k", "g">>)}]

DomainCalls ==
    {Pending("computeDomain", [options |-> o, env |-> e]) :
        o \in DomainOptions, e \in DomainEnvs}

TwoMatchers(h1, h2) ==
    [match    |-> << [host |-> <<h1>>], [host |-> <<h2>>] >>,
     handle   |-> << [handler |-> "reverse_proxy",
                      upstreams |-> << [dial |-> DialOf(9000)] >>] >>,
     terminal |-> TRUE]

NoMatchRoute ==
    [match    |-> <<>>,
     handle   |-> << [handler |-> "file_server", upstreams |-> <<>>] >>,
     terminal |-> FALSE]

RoutePool ==
    { Proxy(<<D1>>, 5173),
      Proxy(<<OtherHost, D1>>, 5174),
      TwoMatchers(OtherHost, D1),
      Proxy(<<"*.localhost", "APP.LOCALHOST">>, 9000),
      Static(<<D2>>),
      NoMatchRoute }

FindCalls ==
    {Pending("findRouteByHost", [routes |-> r, host |-> h]) :
        r \in {Absent} \cup {Some(l) : l \in SeqsUpTo(RoutePool, MaxRouteList)},
        h \in Domains}

BuildPorts == (1..MaxPortArg) \cup {443, 5173, 65535}

BuildCalls ==
    {Pending("addRoute", [domain |-> d, port |-> n]) : d \in {D1}, n \in BuildPorts}

NoProxyRoutes ==
    { Static(<<D1>>),
      NoMatchRoute,
      [match    |-> << [host |-> <<D1>>] >>,
       handle   |-> << [handler |-> "headers", upstreams |-> <<>>],
                       [handler |-> "file_server", upstreams |-> <<>>] >>,
       terminal |-> TRUE],
      [match |-> << [host |-> <<D1>>] >>, handle |-> <<>>, terminal |-> TRUE] }

\* Handlers a route may carry: not proxying, proxying without upstreams,
\* with a dial address without port, with a port, with surrounding blanks,
\* with an empty dial address, and with a second upstream behind a first one
\* that has no port.
HandlerPool ==
    { [handler |-> "static_response", upstreams |-> <<>>],
      [handler |-> "reverse_proxy", upstreams |-> <<>>],
      [handler |-> "reverse_proxy",
       upstreams |-> << [dial |-> <<"b", "a", "c", "k", "e", "n", "d">>] >>],
      [handler |-> "reverse_proxy", upstreams |-> << [dial |-> <<>>] >>],
      [handler |-> "reverse_proxy", upstreams |-> << [dial |-> DialOf(5173)] >>],
      [handler |-> "reverse_proxy",
       upstreams |-> << [dial |-> <<" ">> \o DialOf(9000) \o <<" ">>] >>],
      [handler |-> "reverse_proxy",
       upstreams |-> << [dial |-> <<"h", "o", "s", "t">>], [dial |-> DialOf(5174)] >>] }

HandlerRoutes ==
    {[match |-> << [host |-> <<D1>>] >>, handle |-> hs, terminal |-> TRUE] :
        hs \in SeqsUpTo(HandlerPool, MaxHandlers)}

ExtractCalls == {Pending("extractUpstreamPort", r) : r \in NoProxyRoutes \cup HandlerRoutes}

ListenPool ==
    { <<":", "4", "4", "3">>,
      <<":", "8", "0">>,
      <<":", "8", "4", "4", "3">>,
      <<":", "8", "0", "8", "0">>,
      <<"h", ":", "4", "4", "3">>,
      <<"h">> }

PickCalls == {Pending("pickHttpsPort", l) : l \in SeqsUpTo(ListenPool, MaxListenLen)}

InitPure ==
    /\ cfg = EmptyTree
    /\ inst = [p \in Inst |-> Blank("off")]
    /\ runs = 0
    /\ prev = NoPrev
    /\ call \in SlugCalls \cup DomainCalls \cup FindCalls \cup BuildCalls
                \cup ExtractCalls \cup PickCalls

Returned(c, out) == [c EXCEPT !.out = out, !.done = TRUE]

CallSlugFromFolder ==
    /\ call.fn = "slugFromFolder" /\ ~call.done
    /\ call' = Returned(call, slugFromFolder(call.arg))
    /\ UNCHANGED <<cfg, inst, runs, prev>>

CallComputeDomain ==
    /\ call.fn = "computeDomain" /\ ~call.done
    /\ call' = Returned(call, computeDomain(call.arg.options, call.arg.env))
    /\ UNCHANGED <<cfg, inst, runs, prev>>

CallFindRouteByHost ==
    /\ call.fn = "findRouteByHost" /\ ~call.done
    /\ call' = Returned(call, findRoute(call.arg.routes, call.arg.host))
    /\ UNCHANGED <<cfg, inst, runs, prev>>

\* addRoute builds the route; extractUpstreamPort reads the port back.
CallBuildAndExtract ==
    /\ call.fn = "addRoute" /\ ~call.done
    /\ call' = Returned(call, extractUpstreamPort(MkRoute(call.arg.domain,
                                                          call.arg.port)))
    /\ UNCHANGED <<cfg, inst, runs, prev>>

CallExtractUpstreamPort ==
    /\ call.fn = "extractUpstreamPort" /\ ~call.done
    /\ call' = Returned(call, extractUpstreamPort(call.arg))
    /\ UNCHANGED <<cfg, inst, runs, prev>>

CallPickHttpsPort ==
    /\ call.fn = "pickHttpsPort" /\ ~call.done
    /\ call' = Returned(call, pickHttpsPort(call.arg))
    /\ UNCHANGED <<cfg, inst, runs, prev>>

NextPure ==
    \/ CallSlugFromFolder
    \/ CallComputeDomain
    \/ CallFindRouteByHost
    \/ CallBuildAndExtract
    \/ CallExtractUpstreamPort
    \/ CallPickHttpsPort

SpecPure == InitPure /\ [][NextPure]_vars

(***************************************************************************)
(* Properties of the helper functions                                      *)
(***************************************************************************)
Called(fn) == call.fn = fn /\ call.done

\* The positions of a lowercased name that leave a character in the slug
\* before stripping: a character of [a-z0-9-], or the first character of a
\* run of other characters.
KeptAt(L) ==
    {i \in 1..Len(L) : SlugChar(L[i]) \/ i = 1 \/ SlugChar(L[i - 1])}

\* L with every maximal run of characters outside [a-z0-9-] made one '-'.
RunsAsDash(L) ==
    LET kept == KeptAt(L)
        nth(k) == CHOOSE i \in kept : Cardinality({j \in kept : j <= i}) = k
    IN [k \in 1..Cardinality(kept) |->
           IF SlugChar(L[nth(k)]) THEN L[nth(k)] ELSE "-"]

\* t from its first to its last character that is not '-'.
BetweenDashes(t) ==
    LET solid == {i \in 1..Len(t) : t[i] # "-"}
    IN IF solid = {} THEN <<>>
       ELSE SubSeq(t, CHOOSE i \in solid : \A j \in solid : i <= j,
                      CHOOSE i \in solid : \A j \in solid : j <= i)

LowerAlphabet ==
    {"a", "b", "c", "d", "e", "f", "g", "h", "i", "j", "k", "l", "m",
     "n", "o", "p", "q", "r", "s", "t", "u", "v", "w", "x", "y", "z"}

\* C21: the slug of a folder name has only characters of [a-z0-9-], neither
\* starts nor ends with '-', and is the lowercased name with every maximal run
\* of other characters made a single '-' and the '-' at both ends stripped
\* (runs of '-' inside the name are kept).
C21_SlugShape ==
    Called("slugFromFolder") =>
        LET out == call.out
            L   == ToLower(basename(call.arg))
        IN /\ \A i \in 1..Len(out) :
                  out[i] \in LowerAlphabet \cup {"-"} \/ IsDigit(out[i])
           /\ Len(out) > 0 => (out[1] # "-" /\ out[Len(out)] # "-")
           /\ out = BetweenDashes(RunsAsDash(L))

\* A name with an upper-case letter, a run of '*' and a run of '-' inside.
C21_Witness ==
    /\ Called("slugFromFolder")
    /\ call.arg = <<"*", "a", "-", "-", "B">>
    /\ call.out = <<"a", "-", "-", "b">>

\* The domain built from the selected name source and the tld.
BuiltDomain(o, e) ==
    LET dir  == IF o.cwd.has THEN o.cwd.v ELSE e.cwd
        slug == IF o.nameSource.has /\ o.nameSource.v = "pkg"
                THEN (IF e.pkg.kind = "named" THEN Slugify(e.pkg.name)
                      ELSE slugFromFolder(dir))
                ELSE slugFromFolder(dir)
    IN slug \o <<".">> \o (IF o.tld.has THEN o.tld.v ELSE DefaultTld)

HostHits(routes, host) ==
    {i \in 1..Len(routes) :
        \E j \in 1..Len(routes[i].match) :
            \E k \in 1..Len(routes[i].match[j].host) :
                routes[i].match[j].host[k] = host}

\* C23: findRouteByHost returns the route at the smallest index whose match
\* conditions name the host, with that index; an absent route and -1 when the
\* list is absent, empty or without such a route.
C23_FirstMatch ==
    Called("findRouteByHost") =>
        LET r    == call.arg.routes
            out  == call.out
            hits == IF r.has THEN HostHits(r.v, call.arg.host) ELSE {}
        IN /\ hits = {} => (out.index = -1 /\ out.route = NullRoute)
           /\ hits # {} =>
                 /\ out.index + 1 \in hits
                 /\ \A k \in hits : out.index + 1 <= k
                 /\ out.route = r.v[out.index + 1]

\* The match is the last of three routes, named by its second match condition,
\* after a route whose hosts differ from the host only in case.
C23_Witness ==
    /\ Called("findRouteByHost")
    /\ call.arg.host = D1
    /\ call.arg.routes.has
    /\ Len(call.arg.routes.v) = 3
    /\ call.arg.routes.v[1] = Proxy(<<"*.localhost", "APP.LOCALHOST">>, 9000)
    /\ call.out.index = 2
    /\ call.out.route = TwoMatchers(OtherHost, D1)

\* C24: the port read back from the route that addRoute / replaceRouteAt
\* builds for (D, P), P >= 1, is P; a route with only non-proxying handlers
\* (or none) gives no port.
C24_RoundTrip ==
    /\ Called("addRoute") =>
          (call.arg.port >= 1 => call.out = call.arg.port)
    /\ Called("extractUpstreamPort") =>
          ((\A i \in 1..Len(call.arg.handle) :
                call.arg.handle[i].handler # "reverse_proxy")
             => call.out = NoPort)

\* A port of five digits went through the dial string and came back.
C24_Witness ==
    /\ Called("addRoute")
    /\ call.arg.port = 65535
    /\ call.out = 65535

\* ':443' ends the address.
EndsIn443(a) ==
    Len(a) >= 4 /\ SubSeq(a, Len(a) - 3, Len(a)) = <<":", "4", "4", "3">>

\* C25: pickHttpsPort gives 443 if any address ends in ':443', wherever it is
\* in the list; otherwise the port of the first address whose trailing port
\* is not 80; otherwise none.
C25_PickHttpsPort ==
    Called("pickHttpsPort") =>
        LET l     == call.arg
            other == {i \in 1..Len(l) : TrailingPort(l[i]) \notin {NoPort, 80}}
        IN IF \E i \in 1..Len(l) : EndsIn443(l[i]) THEN call.out = 443
           ELSE IF other # {}
                THEN call.out = TrailingPort(l[CHOOSE i \in other : \A j \in other : i <= j])
           ELSE call.out = NoPort

\* 443 is chosen although another port that is not 80 comes first.
C25_Witness ==
    /\ Called("pickHttpsPort")
    /\ call.arg = << <<":", "8", "4", "4", "3">>, <<":", "8", "0">>, <<"h", ":", "4", "4", "3">> >>
    /\ call.out = 443

(***************************************************************************)
(* Reconciliation of an existing route                                     *)
(***************************************************************************)
\* C26 (as claimed): when the route found for D has a parseable upstream port
\* E that is not alive, the run issues a replacement write for P at the found
\* index, also when E = P.
C26_Orig ==
    \A p \in Inst :
        (ProbedRoute(p) /\ ~inst[p].probe.result) =>
            RouteWrites(inst[p]) =
                <<RouteReq("PUT", inst[p].idx, FreshRoute(inst[p].domain, inst[p].port))>>

\* No handler of the route yields a port: none is a reverse_proxy with a first
\* upstream whose dial text ends in ':digits'.
StaleRoute(p) == ProbedRoute(p) /\ ~inst[p].probe.result

\* C26 (amended): when the route found for D has a parseable upstream port E
\* that is not alive, the run issues one replacement write at the route's
\* index pointing it at P exactly when E differs from P; when E = P it issues
\* no route write and the route list is left as it was read.
C26_StaleReplacedUnlessSame ==
    \A p \in Inst :
        StaleRoute(p) =>
            LET l == inst[p]
            IN IF l.existingPort # l.port
               THEN RouteWrites(l) = <<RouteReq("PUT", l.idx, FreshRoute(l.domain, l.port))>>
               ELSE /\ RouteWrites(l) = <<>>
                    /\ cfg.routes = Some(l.seen)
                    /\ l.outcome = "ok"

\* The dead port was the local port itself.
C26_Witness ==
    \E p \in Inst :
        /\ StaleRoute(p)
        /\ inst[p].existingPort = inst[p].port
        /\ inst[p].outcome = "ok"

Unparseable(route) ==
    \A i \in 1..Len(route.handle) :
        LET h == route.handle[i]
        IN \/ h.handler # "reverse_proxy"
           \/ Len(h.upstreams) = 0
           \/ LET dial == h.upstreams[1].dial
                  k    == DigitSuffixLen(dial)
              IN k = 0 \/ Len(dial) = k \/ dial[Len(dial) - k] # ":"

FoundUnparseable(p) ==
    /\ Done(p)
    /\ inst[p].looked
    /\ inst[p].idx >= 0
    /\ Unparseable(inst[p].seen[inst[p].idx + 1])

\* C27: when the route found for D has no parseable upstream port, the run
\* makes no liveness probe and issues one write, a PUT at the found index of
\* the route for P; after it the route at that index is the route for P.
C27_UnparseableReplaced ==
    \A p \in Inst :
        FoundUnparseable(p) =>
            LET l == inst[p]
            IN /\ Probes(l) = <<>>
               /\ RouteWrites(l) = <<RouteReq("PUT", l.idx, FreshRoute(l.domain, l.port))>>
               /\ l.outcome = "ok"
               /\ cfg.routes.v[l.idx + 1] = FreshRoute(l.domain, l.port)

\* The found route was a reverse_proxy with an empty upstream list, behind
\* another route.
C27_Witness ==
    \E p \in Inst :
        /\ FoundUnparseable(p)
        /\ inst[p].idx = 1
        /\ inst[p].seen[2] = ProxyNoUpstream(<<D1>>)
        /\ inst[p].outcome = "ok"

\* The run replaced the route it found (no creation).
Replaced(p) ==
    /\ Done(p)
    /\ inst[p].outcome = "ok"
    /\ inst[p].idx >= 0
    /\ Len(RouteWrites(inst[p])) = 1

IsBootReq(r) == r.m # "PROBE" /\ r.path # "routes"

BootReqs(l) == SelectSeq(l.log, IsBootReq)

EmptyRoots == {Containers(0), Containers(1)}

ContainerPaths == {"apps", "http", "servers", "tls", "automation", "policies"}

\* The step from l to l2 sent a PUT of a container placeholder.
ContainerPut(l, l2) ==
    /\ Len(l2.log) = Len(l.log) + 1
    /\ LastReq(l2).m = "PUT"
    /\ LastReq(l2).path \in ContainerPaths

\* Everything that c holds, c2 holds unchanged.
ContentKept(c, c2) ==
    /\ \A q \in ContainerPaths \cup {"config", "server"} : Present(c, q) => Present(c2, q)
    /\ c.listen.has => c2.listen = c.listen
    /\ c.routes.has => c2.routes = c.routes
    /\ c.auto.has => c2.auto = c.auto
    /\ c.policies.has => c2.policies = c.policies

\* C31: a bootstrap sends the PUT of a container placeholder only directly
\* after a GET of that same path that was answered non-2xx (so never to a
\* container whose GET succeeded), and that PUT leaves everything the tree
\* held before it unchanged.
C31_ContainersNonDestructive ==
    [][\A p \in Inst :
          ContainerPut(inst[p], inst'[p]) =>
              /\ Len(inst[p].log) > 0
              /\ LastReq(inst[p]) = Req("GET", LastReq(inst'[p]).path)
              /\ inst[p].status = "non2xx"
              /\ ~Present(cfg, LastReq(inst'[p]).path)
              /\ ContentKept(cfg, cfg')]_vars

\* The tls container was there and was not written; automation below it was
\* missing and was created.
C31_Witness ==
    \E p \in Inst :
        /\ BootFinished(p)
        /\ inst[p].cfg0.tls
        /\ ~inst[p].cfg0.automation
        /\ LogHas(inst[p], "GET", "tls")
        /\ ~LogHas(inst[p], "PUT", "tls")
        /\ LogHas(inst[p], "PUT", "automation")
        /\ cfg.automation

AutoDisabled(c) == c.root /\ c.server /\ c.auto.has /\ c.auto.disable = "true"

\* C32: a bootstrap writes the automatic-HTTPS setting exactly when the
\* managed server existed with disable = true in the setting; the setting is
\* then what it was with disable = false, its other fields as they were.  In
\* every other case on an existing server the setting is left as it was.
C32_AutoHttpsReenabled ==
    \A p \in Inst :
        BootFinished(p) =>
            LET l == inst[p]
            IN /\ LogHas(l, "PUT", "auto") <=> AutoDisabled(l.cfg0)
               /\ AutoDisabled(l.cfg0) =>
                     /\ cfg.auto = [l.cfg0.auto EXCEPT !.disable = "false"]
                     /\ cfg.auto.skip = l.cfg0.auto.skip
               /\ (l.cfg0.root /\ l.cfg0.server /\ ~AutoDisabled(l.cfg0)) =>
                     cfg.auto = l.cfg0.auto

\* The setting was disabled and listed a host to skip; it is enabled and
\* still lists the host.
C32_Witness ==
    \E p \in Inst :
        /\ BootFinished(p)
        /\ inst[p].cfg0.auto = AutoOff
        /\ LogHas(inst[p], "PUT", "auto")
        /\ cfg.auto = [has |-> TRUE, disable |-> "false", skip |-> <<OtherHost>>]

(***************************************************************************)
(* isPortActive: cancellation of the loser                                 *)
(***************************************************************************)
\* Nothing of a resolved probe is left running: no armed timer, the abort
\* signal raised, and a timer that was cleared belongs to a settled attempt.
NothingLeaks(pr) ==
    pr.resolved =>
        /\ pr.timer \in {"cleared", "fired"}
        /\ pr.aborted
        /\ pr.timer = "cleared" => pr.conn \in {"closed", "failed"}
        /\ pr.conn \in {"pending", "closed", "failed"}

\* C33: in every interleaving, once the probe has its result no timer is left
\* armed and the abort signal of the connection attempt is raised; a timer
\* that was cleared never fires afterwards, and a connection attempt that
\* settles, before or after the timeout, ends closed or failed, never open.
C33_LoserCancelled ==
    [][\A p \in Inst :
          /\ NothingLeaks(inst'[p].probe)
          /\ (inst[p].probe.timer = "cleared" /\ runs' = runs) =>
                inst'[p].probe.timer = "cleared"
          /\ (inst[p].probe.conn \in {"closed", "failed"} /\ runs' = runs) =>
                inst'[p].probe.conn = inst[p].probe.conn]_vars

\* The timeout won and the run has ended while the aborted attempt has not
\* settled yet.
C33_Witness ==
    \E p \in Inst :
        /\ Done(p)
        /\ inst[p].probe.resolved
        /\ inst[p].probe.timer = "fired"
        /\ inst[p].probe.aborted
        /\ inst[p].probe.conn = "pending"

(***************************************************************************)
(* Progress of the probe.  The event loop runs a timer callback that is    *)
(* due and resumes wireDomain once the awaited promise is resolved; the    *)
(* connection attempt is under no obligation to settle.                    *)
(***************************************************************************)
AfterProbe(p) ==
    \/ AlreadyCorrect(p)
    \/ ConflictFailFast(p)
    \/ ConflictPermissive(p)
    \/ Stale(p)

SpecLive ==
    /\ Init
    /\ [][Next]_vars
    /\ \A p \in Inst : WF_vars(TimerFires(p)) /\ WF_vars(AfterProbe(p))

\* C34: a probe that has been started always resolves, also when the
\* connection attempt never settles, and the run then leaves the probe.
C34_ProbeResolves ==
    \A p \in Inst :
        /\ (inst[p].pc = "probing") ~> inst[p].probe.resolved
        /\ (inst[p].pc = "probing") ~> (inst[p].pc # "probing")

\* The timeout has resolved the probe to false while the connection attempt
\* is still pending and wireDomain has not resumed yet.
C34_Witness ==
    \E p \in Inst :
        /\ inst[p].pc = "probing"
        /\ inst[p].probe.resolved
        /\ ~inst[p].probe.result
        /\ inst[p].probe.timer = "fired"
        /\ inst[p].probe.conn = "pending"

(***************************************************************************)
(* extractUpstreamPort over routes with several handlers                   *)
(***************************************************************************)
\* The handler proxies and has at least one upstream.
ProxyWithUpstream(h) == h.handler = "reverse_proxy" /\ Len(h.upstreams) > 0

\* The trailing ':digits' of the handler's first upstream dial address, blanks
\* around the address aside; NoPort when there is none.
FirstDialPort(h) ==
    IF ProxyWithUpstream(h) THEN TrailingPort(Trim(h.upstreams[1].dial)) ELSE NoPort

\* C35 (as claimed): the result is decided by the first reverse_proxy handler
\* with a non-empty upstream list alone: its port, or none when its dial
\* address has no parseable port, whatever the handlers behind it are.
C35_Orig ==
    Called("extractUpstreamPort") =>
        LET hs == call.arg.handle
        IN \A i \in 1..Len(hs) :
              (ProxyWithUpstream(hs[i]) /\ \A j \in 1..(i - 1) : ~ProxyWithUpstream(hs[j]))
                 => call.out = FirstDialPort(hs[i])

\* C35 (amended): the result is the port of the first handler, in order, that
\* is a reverse_proxy handler with a non-empty upstream list whose first dial
\* address has a parseable port; handlers before it that yield no port are
\* passed over, and the result is none exactly when no handler yields a port.
C35_FirstParseablePort ==
    Called("extractUpstreamPort") =>
        LET hs == call.arg.handle
        IN /\ \A i \in 1..Len(hs) :
                 (FirstDialPort(hs[i]) # NoPort
                    /\ \A j \in 1..(i - 1) : FirstDialPort(hs[j]) = NoPort)
                   => call.out = FirstDialPort(hs[i])
           /\ (\A i \in 1..Len(hs) : FirstDialPort(hs[i]) = NoPort) <=> call.out = NoPort

\* The first proxying handler dials an address without port, the second one
\* dials 127.0.0.1:5173: the result is 5173.
C35_Witness ==
    /\ Called("extractUpstreamPort")
    /\ Len(call.arg.handle) = 2
    /\ ProxyWithUpstream(call.arg.handle[1])
    /\ FirstDialPort(call.arg.handle[1]) = NoPort
    /\ call.out = 5173

(***************************************************************************)
(* The error of a failed write                                             *)
(***************************************************************************)
\* C36 (as claimed): the error raised for a write answered non-2xx identifies
\* the method, the path, the status and the body of the exchange (the same
\* request sent with the other method would not raise this error), and it is
\* the error that configureServer's catch receives.
C36_Orig ==
    \A p \in Inst :
        FailedWrite(inst[p]) =>
            LET l == inst[p]
                r == LastReq(l)
            IN /\ l.logged = l.thrown
               /\ l.thrown.path = r.path /\ l.thrown.idx = r.idx
               /\ l.thrown.status = l.resp.status
               /\ l.thrown.body = l.resp.body
               /\ \A m \in {"PUT", "POST"} :
                     HttpError([r EXCEPT !.m = m], l.resp) = l.thrown => m = r.m

\* C36 (amended): the error raised for a write answered non-2xx carries the
\* URL of the request (its path, with the index for an array element), the
\* status and status text of the response and the response body, but not the
\* request method; the catch of configureServer receives that same error.
C36_ErrorCarriesUrlStatusBody ==
    \A p \in Inst :
        FailedWrite(inst[p]) =>
            LET l == inst[p]
                r == LastReq(l)
            IN /\ l.outcome = "threw"
               /\ l.thrown.kind = "http"
               /\ l.thrown.path = r.path /\ l.thrown.idx = r.idx
               /\ l.thrown.status = l.resp.status
               /\ l.thrown.statusText = l.resp.statusText
               /\ l.thrown.body = l.resp.body
               /\ l.resp.status \notin {0, 200}
               /\ l.logged = l.thrown
               /\ \A m \in {"PUT", "POST"} : HttpError([r EXCEPT !.m = m], l.resp) = l.thrown

\* The POST of the policy entry was answered 500; the error logged names the
\* policies path, 500 and the body.
C36_Witness ==
    \E p \in Inst :
        /\ FailedWrite(inst[p])
        /\ LastReq(inst[p]) = Req("POST", "policies")
        /\ inst[p].logged.kind = "http"
        /\ inst[p].logged.path = "policies"
        /\ inst[p].logged.status = 500
        /\ inst[p].logged.body = "loading config"

(***************************************************************************)
(* Two plugin processes, one per project, reconciling at the same time     *)
(* against the same proxy and the same serverId.  Every admin request of   *)
(* either process is one step; the steps interleave freely.                *)
(***************************************************************************)
\* The project of process p: its domain.
DomainOf(p) == IF p = 1 THEN D1 ELSE D2

InitConc ==
    /\ cfg \in InitTrees
    /\ inst = [p \in Inst |-> Blank("idle")]
    /\ runs = 0
    /\ prev = NoPrev
    /\ call = NoCall

\* The dev server of project p is listening: its wireDomain starts, whatever
\* the other process is doing.  The two dev servers hold different ports.
StartConcurrent(p) ==
    /\ inst[p].pc = "idle"
    /\ \E port \in LocalPorts, ins \in BOOLEAN, fail \in BOOLEAN :
          /\ \A q \in Inst \ {p} : inst[q].pc # "idle" => inst[q].port # port
          /\ inst' = [inst EXCEPT ![p] =
                        [Blank("getRoot") EXCEPT !.domain = DomainOf(p), !.port = port,
                                                 !.insertFirst = ins,
                                                 !.failOnActiveDomain = fail,
                                                 !.cfg0 = cfg]]
    /\ runs' = runs + 1
    /\ UNCHANGED <<cfg, prev, call>>

NextConc ==
    \E p \in Inst :
        \/ StartConcurrent(p)
        \/ GetRoot(p)
        \/ SeedConfig(p)
        \/ GetServer(p)
        \/ EnsurePathGet(p)
        \/ EnsurePathPut(p)
        \/ CreateServer(p)
        \/ GetListen(p)
        \/ UpdateListen(p)
        \/ GetAutoHttps(p)
        \/ EnableAutoHttps(p)
        \/ TlsContainerGet(p)
        \/ TlsContainerPut(p)
        \/ GetPolicies(p)
        \/ AddPolicy(p)
        \/ GetRoutes(p)
        \/ addRoute(p)
        \/ replaceRouteAt(p)
        \/ ProbeStart(p)
        \/ ConnectThen(p)
        \/ ConnectCatch(p)
        \/ TimerFires(p)
        \/ AlreadyCorrect(p)
        \/ ConflictFailFast(p)
        \/ ConflictPermissive(p)
        \/ Stale(p)

SpecConc == InitConc /\ [][NextConc]_vars

\* Both processes have run to their end on a proxy that was empty at first.
BothDoneFromEmpty ==
    /\ \A p \in Inst : Done(p)
    /\ \E p \in Inst : inst[p].cfg0 = Containers(0)

\* C37 (as claimed): when two processes with domains D1 # D2 reconcile at the
\* same time against a proxy whose configuration is empty at first, then in
\* every interleaving both runs succeed and the tree ends with a route for
\* each domain to its project's port and an internal-issuer policy for each.
C37_Orig ==
    BothDoneFromEmpty =>
        \A p \in Inst :
            /\ inst[p].outcome = "ok"
            /\ HasRouteTo(cfg, inst[p].domain, inst[p].port)
            /\ HasInternalPolicy(cfg, inst[p].domain)

\* The routes of tree c that do not match domain d, in order.
OtherRoutes(c, d) == SelectSeq(c.routes.v, LAMBDA r : ~RouteMatchesHost(r, d))

\* C38: whatever the other process has inserted since this run fetched the
\* route list, the replacement write of a run for D never overwrites a route
\* of another domain: the routes that do not match D are after the write
\* what they were before it, in number and in order.
C38_ReplaceSparesOthers ==
    [][\A p \in Inst :
          (inst[p].pc = "replace" /\ inst'[p].pc = "done") =>
              OtherRoutes(cfg', inst[p].domain) = OtherRoutes(cfg, inst[p].domain)]_vars

\* The other process inserted its route at index 0 between this run's fetch
\* and its replacement write: the write went to the index of the fetch, which
\* by then held another route.
C38_Witness ==
    \E p \in Inst, q \in Inst :
        /\ p # q
        /\ Done(p) /\ Done(q)
        /\ inst[p].outcome = "ok"
        /\ inst[p].idx >= 0
        /\ RouteWrites(inst[p]) =
              <<RouteReq("PUT", inst[p].idx, MkRoute(inst[p].domain, inst[p].port))>>
        /\ RouteWrites(inst[q]) =
              <<RouteReq("PUT", 0, MkRoute(inst[q].domain, inst[q].port))>>
        /\ Len(cfg.routes.v) = Len(inst[p].seen) + 2
        /\ cfg.routes.v[inst[p].idx + 1] = MkRoute(inst[p].domain, inst[p].port)
        /\ cfg.routes.v[inst[p].idx + 2] # inst[p].seen[inst[p].idx + 1]
        /\ ~RouteMatchesHost(cfg.routes.v[inst[p].idx + 2], inst[p].domain)

(***************************************************************************)
(* A second run after a successful one                                     *)
(***************************************************************************)
IsWrite(r) == r.m \in {"PUT", "POST"}

\* The run of p has ended and repeats the successful run before it: same
\* domain, same port.
Rerun(p) ==
    /\ Done(p)
    /\ prev.valid
    /\ prev.outcome = "ok"
    /\ prev.domain = inst[p].domain
    /\ prev.port = inst[p].port

HostsOf(route) ==
    UNION {{route.match[j].host[k] : k \in 1..Len(route.match[j].host)} :
              j \in 1..Len(route.match)}

\* C40: after a replacement the route at the replaced index lists D and
\* nothing else: no other hostname that the route found at that index listed
\* is matched by the route now at that index.
C40_ReplacedRouteMatchesDOnly ==
    \A p \in Inst :
        Replaced(p) =>
            LET l   == inst[p]
                new == cfg.routes.v[l.idx + 1]
            IN /\ HostsOf(new) = {l.domain}
               /\ \A h \in HostsOf(l.seen[l.idx + 1]) \ {l.domain} :
                     ~RouteMatchesHost(new, h)

\* The route found listed api.localhost and other.localhost; the route now at
\* its index does not match other.localhost.
C40_Witness ==
    \E p \in Inst :
        /\ Replaced(p)
        /\ inst[p].domain = D2
        /\ HostsOf(inst[p].seen[inst[p].idx + 1]) = {D2, OtherHost}
        /\ ~RouteMatchesHost(cfg.routes.v[inst[p].idx + 1], OtherHost)

====
